---- MODULE Spec2Model ----
(***************************************************************************)
(* Model of compiler/rustc_codegen_cranelift/src/constant.rs: the handling *)
(* of statics, consts and promoted allocations.                            *)
(*                                                                         *)
(* State: the function-level ConstantCx (fx.constants_cx), the ConstantCx  *)
(* local to a running codegen_static, the destination module (declared and *)
(* defined data objects) and the compiler's table of global allocations.   *)
(* One action per use-site lowering, one per codegen_static / finalize     *)
(* request, one per iteration of the drain loop of define_all_allocs and   *)
(* one for its exit.                                                       *)
(***************************************************************************)
EXTENDS Integers, Sequences, FiniteSets, TLC

(***************************************************************************)
(* Bounds of the model.                                                    *)
(***************************************************************************)
\* memory allocations that exist before codegen starts
NMem == 2
\* longest todo queue a use site may still push onto
MaxTodo == 2
\* scalar-as-bytes buffers materialized by use sites
MaxFresh == 2
\* reference sites of a static that carries a linkage hint
MaxRefs == 3

(***************************************************************************)
(* The compiler's world (tcx): allocation identities and statics.          *)
(***************************************************************************)
\* AllocId of a memory allocation, of the function and of a static
MemId(i) == [k |-> "Memory", n |-> i, d |-> ""]
FnId == [k |-> "Function", n |-> 0, d |-> ""]
StaticId(s) == [k |-> "Static", n |-> 0, d |-> s]
\* an AllocId the global allocation table has no entry for
MissingId == [k |-> "Missing", n |-> 0, d |-> ""]
\* std::iter::repeat(0).take(n): the identity of a buffer of n zero bytes
Zeroes(n) == [k |-> "Zeroes", n |-> n, d |-> ""]

\* A, B: plain statics whose initializers point at each other; T: a
\* thread-local static; W: a static carrying an explicit linkage hint.
DefIds == {"A", "B", "T", "W"}
\* K, O: statics with the linkage hints weak and weak_odr, K a static mut
\* of a type that is not Freeze; they are declared but never requested
HintDefIds == {"K", "O"}

\* tcx.codegen_fn_attrs(def_id).flags.contains(THREAD_LOCAL)
thread_local(s) == s = "T"
\* tcx.codegen_fn_attrs(def_id).linkage
rlinkage(s) ==
    CASE s = "W" -> "ExternalWeak"
      [] s = "K" -> "WeakAny"
      [] s = "O" -> "WeakODR"
      [] OTHER -> "None"
\* tcx.is_mutable_static(def_id)
is_mutable_static(s) == s \in {"B", "K"}
\* ty.is_freeze(..) of the static's type
is_freeze(s) == s \notin {"T", "K"}
\* tcx.codegen_fn_attrs(def_id).link_section
link_section(s) == IF s = "B" THEN ".mysection" ELSE "None"

\* the values a pointer-sized slot under a relocation may hold
Addends == {0, 4}
\* tcx.data_layout.pointer_size in bytes
PtrSize == 8

\* A 64-bit quantity outruns the integers of the checker.  Wide(hi, lo) is
\* the integer hi * 2^63 + lo, lo being small in absolute value: 0 is
\* Wide(0, 0), 2^63 - 1 is Wide(1, -1), 2^63 is Wide(1, 0) and 2^64 - 4 is
\* Wide(2, -4).  Every integer within reach has one such writing.
Wide(hi, lo) == [hi |-> hi, lo |-> lo]

\* a - b
WideSub(a, b) == Wide(a.hi - b.hi, a.lo - b.lo)

\* v < 0
WideNegative(v) == v.hi < 0 \/ (v.hi = 0 /\ v.lo < 0)

\* i64::try_from(v).is_ok(): -2^63 <= v < 2^63
FitsI64(v) == (v.hi = 0) \/ (v.hi = 1 /\ v.lo < 0) \/ (v.hi = -1 /\ v.lo >= 0)

\* a relocation of an allocation: its byte offset, the AllocId it points at
\* and the integer stored in the pointer-sized slot at that offset
\* An offset (Size, a u64) is offset_hi * 2^32 + offset with
\* 0 <= offset < 2^32.  The stored integer (a u64 read into a u128) is the
\* wide integer raw_hi * 2^63 + raw.
WideReloc(oh, o, t, w, a) ==
    [offset |-> o, offset_hi |-> oh, target |-> t, raw |-> a, raw_hi |-> w]

Reloc(o, t, a) == WideReloc(0, o, t, 0, a)

\* the relocations a memory allocation may hold: to a memory allocation
\* (with a non-zero stored offset), to the function (stored value zero or
\* not) or to a static, plain or thread-local
Relocs(o) ==
    {Reloc(o, MemId(i), 4) : i \in 1..NMem}
    \cup {Reloc(o, FnId, a) : a \in Addends}
    \cup {Reloc(o, StaticId(s), 0) : s \in {"A", "T"}}

\* the allocations a memory AllocId may stand for: no relocation, one
\* relocation at offset 0, or two relocations to memory allocations
Allocations ==
    {[relocs |-> <<>>, mutbl |-> FALSE]}
    \cup {[relocs |-> <<r>>, mutbl |-> FALSE] : r \in Relocs(0)}
    \cup {[relocs |-> <<Reloc(0, MemId(1), 0), Reloc(PtrSize, MemId(NMem), 4)>>, mutbl |-> TRUE]}

\* tcx.eval_static_initializer(def_id)
eval_static_initializer(s) ==
    CASE s = "A" -> [relocs |-> <<Reloc(0, StaticId("B"), 0), Reloc(PtrSize, MemId(1), 4)>>,
                     mutbl |-> FALSE]
      [] s = "B" -> [relocs |-> <<Reloc(0, StaticId("A"), 4)>>, mutbl |-> TRUE]
      [] OTHER -> [relocs |-> <<>>, mutbl |-> FALSE]

\* the allocation tables codegen may start from
Worlds == [1..NMem -> Allocations]

\* the allocation tables in which every allocation is free of relocations or
\* points at the next one (the last one at the first)
RingWorlds ==
    {w \in Worlds : \A i \in 1..NMem :
        \/ w[i].relocs = <<>>
        \/ w[i].relocs = <<Reloc(0, MemId((i % NMem) + 1), 4)>>}

VARIABLES
    alloc_map,      \* tcx: memory allocation number -> Allocation
    module,         \* the destination module
    constants_cx,   \* fx.constants_cx, the ConstantCx of the function codegen
    static_cx,      \* the ConstantCx local to the running codegen_static
    pc,             \* "idle", "static", "finalize" or "finished"
    status,         \* "ok", or how the process ended: "fatal" or "bug"
    ret,            \* the value a use-site lowering has just returned
    hist,           \* history: the codegen_static requests made, and whether
                    \* a drain ("static", "finalize") has popped an item whose
                    \* handle was in done
    fx              \* the function being compiled: fx.mir.required_consts,
                    \* what check_constants returned and the diagnostics
                    \* it emitted

vars == <<alloc_map, module, constants_cx, static_cx, pc, status, ret, hist, fx>>

(***************************************************************************)
(* The module backend (cranelift_module::Module), as the core uses it.     *)
(***************************************************************************)
\* A data object handle (DataId) is opaque to the core: the handle of a
\* named object is written [name, 0], that of the k-th anonymous object
\* ["", k].  decls, defs and calls are functions over the declared handles;
\* calls counts the define_data calls made on a handle.
NamedId(name) == [name |-> name, anon |-> 0]
AnonId(k) == [name |-> "", anon |-> k]

\* the DataContext of an object that has not been defined
NotDefined == [defined |-> FALSE, init |-> MissingId, relocs |-> <<>>, section |-> "None"]

\* DataContext::new() followed by define(bytes): the bytes are named by the
\* object they are copied from (Zeroes(n): a buffer of n zero bytes)
DataContext(init, section) ==
    [defined |-> TRUE, init |-> init, relocs |-> <<>>, section |-> section]

\* data_ctx.write_data_addr(offset, global_value of data_id, addend)
\* (the i64 addend is the wide integer addend_hi * 2^63 + addend)
write_data_addr(ctx, offset, data_id, addend) ==
    [ctx EXCEPT !.relocs =
        Append(@, [offset |-> offset, kind |-> "data", id |-> data_id,
                   addend |-> addend.lo, addend_hi |-> addend.hi])]

\* data_ctx.write_function_addr(offset, local_func_id)
write_function_addr(ctx, offset) ==
    [ctx EXCEPT !.relocs =
        Append(@, [offset |-> offset, kind |-> "func", id |-> NamedId("fn"),
                   addend |-> 0, addend_hi |-> 0])]

EmptyModule == [decls |-> <<>>, defs |-> <<>>, calls |-> <<>>, nanon |-> 0]

Declared(m) == DOMAIN m.decls

AddDecl(m, id, decl) ==
    [m EXCEPT !.decls = @ @@ (id :> decl),
              !.defs = @ @@ (id :> NotDefined),
              !.calls = @ @@ (id :> 0)]

\* module.declare_anonymous_data(writable, tls): always a new object
declare_anonymous_data(m, writable, tls) ==
    LET id == AnonId(m.nanon + 1)
    IN [m |-> [AddDecl(m, id, [linkage |-> "Local", writable |-> writable, tls |-> tls])
                 EXCEPT !.nanon = @ + 1],
        id |-> id]

\* module.declare_data(name, linkage, writable, tls): one object per name;
\* declaring a name again returns the handle it already has
declare_data(m, name, linkage, writable, tls) ==
    IF NamedId(name) \in Declared(m)
    THEN [m |-> m, id |-> NamedId(name)]
    ELSE [m |-> AddDecl(m, NamedId(name),
                        [linkage |-> linkage, writable |-> writable, tls |-> tls]),
          id |-> NamedId(name)]

\* module.define_data(data_id, data_ctx): Err(DuplicateDefinition) when the
\* object is already defined
define_data(m, data_id, ctx) ==
    IF m.defs[data_id].defined
    THEN [m |-> [m EXCEPT !.calls[data_id] = @ + 1], res |-> "DuplicateDefinition"]
    ELSE [m |-> [m EXCEPT !.defs[data_id] = ctx, !.calls[data_id] = @ + 1], res |-> "Ok"]

(***************************************************************************)
(* ConstantCx and the handles of allocations and statics.                  *)
(***************************************************************************)
Alloc(alloc_id) == [tag |-> "Alloc", id |-> alloc_id]
Static(s) == [tag |-> "Static", id |-> StaticId(s)]

\* ConstantCx::new()
\* (pushed is a history field: every item ever pushed onto todo)
NewConstantCx == [todo |-> <<>>, done |-> {}, anon_allocs |-> <<>>, pushed |-> {}]

\* cx.todo.push(item)
Push(c, item) == [c EXCEPT !.todo = Append(@, item), !.pushed = @ \cup {item}]

\* (mutant) the entry is overwritten: anon_allocs.insert(alloc_id, declare())
data_id_for_alloc_id_Redeclares(c, m, alloc_id, mutbl) ==
    LET d == declare_anonymous_data(m, mutbl, FALSE)
    IN [cx |-> [c EXCEPT !.anon_allocs =
                   [a \in DOMAIN @ \cup {alloc_id} |-> IF a = alloc_id THEN d.id ELSE @[a]]],
        m |-> d.m, id |-> d.id]

\* (mutant) the object is declared but the entry is not kept
data_id_for_alloc_id_Unrecorded(c, m, alloc_id, mutbl) ==
    LET d == declare_anonymous_data(m, mutbl, FALSE)
    IN [cx |-> c, m |-> d.m, id |-> d.id]

\* data_id_for_alloc_id: cx.anon_allocs.entry(alloc_id).or_insert_with(declare)
data_id_for_alloc_id(c, m, alloc_id, mutbl) ==
    IF alloc_id \in DOMAIN c.anon_allocs
    THEN [cx |-> c, m |-> m, id |-> c.anon_allocs[alloc_id]]
    ELSE LET d == declare_anonymous_data(m, mutbl, FALSE)
         IN [cx |-> [c EXCEPT !.anon_allocs = @ @@ (alloc_id :> d.id)],
             m |-> d.m, id |-> d.id]

\* crate::linkage::get_static_linkage(tcx, def_id)
get_static_linkage(s) == IF s = "B" THEN "Hidden" ELSE "Export"

\* tcx.symbol_name(instance).name
symbol_name(s) == s
\* (mutant) the indirection object takes the name of the symbol
ref_name_Symbol(s) == symbol_name(s)
\* format!("_rust_extern_with_linkage_{}", symbol_name)
ref_name(s) == "_rust_extern_with_linkage_" \o symbol_name(s)

\* (mutant) a reference site ignores the linkage hint
StaticLinkage_Import(s, definition) ==
    IF definition THEN get_static_linkage(s) ELSE "Import"

\* the linkage data_id_for_static declares the static's symbol with
StaticLinkage(s, definition) ==
    IF definition THEN get_static_linkage(s)
    ELSE IF rlinkage(s) = "ExternalWeak" \/ rlinkage(s) = "WeakAny" THEN "Preemptible"
    ELSE "Import"

\* (mutant) the result of define_data is unwrapped
AcceptDefineResult_OkOnly(res) == res = "Ok"

\* match module.define_data(ref_data_id, ..) { Err(DuplicateDefinition(_)) => {}
\*                                             res => res.unwrap() }
AcceptDefineResult(res) == res = "Ok" \/ res = "DuplicateDefinition"

\* data_id_for_static(tcx, module, def_id, definition): [m, id, status]
data_id_for_static(m, s, definition) ==
    LET is_mutable == IF is_mutable_static(s) THEN TRUE ELSE ~is_freeze(s)
        d == declare_data(m, symbol_name(s), StaticLinkage(s, definition),
                          is_mutable, thread_local(s))
    IN IF rlinkage(s) # "None"
       THEN LET r == declare_data(d.m, ref_name(s), "Local", FALSE, FALSE)
                data_ctx == write_data_addr(DataContext(Zeroes(PtrSize), "None"), 0, d.id, Wide(0, 0))
                def == define_data(r.m, r.id, data_ctx)
            IN [m |-> def.m, id |-> r.id,
                status |-> IF AcceptDefineResult(def.res) THEN "ok" ELSE "bug"]
       ELSE [m |-> d.m, id |-> d.id, status |-> "ok"]

(***************************************************************************)
(* define_all_allocs: one iteration of `while let Some(item) = todo.pop()` *)
(***************************************************************************)
\* a Size, hi * 2^32 + lo
Size(hi, lo) == [hi |-> hi, lo |-> lo]

\* (mutant) a value that does not fit an i64 is written as zero
as_i64_Checked(v) == IF FitsI64(v) THEN v ELSE Wide(0, 0)

\* `addend as i64` of a pointer-sized value (0 <= v < 2^64): the low 64
\* bits read as a two's complement number, v - 2^64 from 2^63 on
as_i64(v) == IF FitsI64(v) THEN v ELSE Wide(v.hi - 2, v.lo)

\* `offset.bytes() as u32`: the low 32 bits
as_u32(size) == size.lo

\* read_target_uint(endianness, bytes at offset .. offset + pointer_size)
read_addend(r) == Wide(r.raw_hi, r.raw)

\* (mutant) the addend of a function relocation is not asserted to be zero
FunctionAddendOk_Always(addend) == TRUE

\* assert_eq!(addend, 0) for a relocation whose target is a function
FunctionAddendOk(addend) == addend = Wide(0, 0)

\* (mutant) thread-local statics are treated like any other static
CapturesThreadLocal_Never(s) == FALSE

\* the relocation targets a thread-local static: tcx.sess.fatal(..)
CapturesThreadLocal(s) == thread_local(s)

\* (mutant) the target of a relocation is declared but never enqueued
EnqueueTarget_Forgotten(c, reloc) == c

\* GlobalAlloc::Memory(target_alloc) => cx.todo.push(TodoItem::Alloc(reloc))
EnqueueTarget(c, reloc) == Push(c, Alloc(reloc))

\* (mutant) the static a relocation points at is enqueued for definition
EnqueueStaticTarget_Pushes(c, s) == Push(c, Static(s))

\* GlobalAlloc::Static(def_id) => "Don't push a `TodoItem::Static` here"
EnqueueStaticTarget(c, s) == c

\* one relocation of the buffer being defined; st = [cx, m, ctx, status]
ResolveReloc(st, r) ==
    LET addend == read_addend(r)
        offset == Size(r.offset_hi, r.offset)
        reloc == r.target
    IN CASE reloc.k = "Function" ->
              IF ~FunctionAddendOk(addend)
              THEN [st EXCEPT !.status = "bug"]
              ELSE [st EXCEPT !.ctx = write_function_addr(@, as_u32(offset))]
         [] reloc.k = "Memory" ->
              LET d == data_id_for_alloc_id(EnqueueTarget(st.cx, reloc), st.m, reloc,
                                            alloc_map[reloc.n].mutbl)
              IN [st EXCEPT !.cx = d.cx, !.m = d.m,
                            !.ctx = write_data_addr(@, as_u32(offset), d.id, as_i64(addend))]
         [] reloc.k = "Static" ->
              IF CapturesThreadLocal(reloc.d)
              THEN [st EXCEPT !.status = "fatal"]
              ELSE LET d == data_id_for_static(st.m, reloc.d, FALSE)
                   IN [st EXCEPT !.cx = EnqueueStaticTarget(@, reloc.d),
                                 !.m = d.m,
                                 !.ctx = write_data_addr(@, as_u32(offset), d.id,
                                                         as_i64(addend)),
                                 !.status = d.status]
         \* tcx.get_global_alloc(reloc).unwrap() on a missing allocation
         [] OTHER -> [st EXCEPT !.status = "bug"]

\* for &(offset, (_tag, reloc)) in alloc.relocations().iter(), from the i-th on;
\* a fatal error or a panic ends the scan
RECURSIVE ScanRelocs(_, _, _)
ScanRelocs(relocs, i, st) ==
    IF i > Len(relocs) \/ st.status # "ok" THEN st
    ELSE ScanRelocs(relocs, i + 1, ResolveReloc(st, relocs[i]))

\* (mutant) the done set is not consulted
AlreadyDone_Never(c, data_id) == FALSE

\* if cx.done.contains(&data_id) { continue; }
AlreadyDone(c, data_id) == data_id \in c.done

\* the handle, the allocation and the section of a popped item
ItemHandle(c, m, item) ==
    IF item.tag = "Alloc"
    THEN LET d == data_id_for_alloc_id(c, m, item.id, alloc_map[item.id.n].mutbl)
         IN [cx |-> d.cx, m |-> d.m, id |-> d.id, status |-> "ok"]
    ELSE LET d == data_id_for_static(m, item.id.d, TRUE)
         IN [cx |-> c, m |-> d.m, id |-> d.id, status |-> d.status]

ItemAlloc(item) ==
    IF item.tag = "Alloc" THEN alloc_map[item.id.n] ELSE eval_static_initializer(item.id.d)

ItemSection(item) ==
    IF item.tag = "Alloc" THEN "None" ELSE link_section(item.id.d)

\* module.define_data(data_id, &data_ctx).unwrap(); cx.done.insert(data_id)
DefineAndMark(st, data_id) ==
    LET def == define_data(st.m, data_id, st.ctx)
    IN IF def.res # "Ok"
       THEN [cx |-> st.cx, m |-> def.m, status |-> "bug"]
       ELSE [cx |-> [st.cx EXCEPT !.done = @ \cup {data_id}], m |-> def.m, status |-> "ok"]

\* the body of the loop for the item on top of c.todo: [cx, m, status]
PopStep(c, m) ==
    LET item == c.todo[Len(c.todo)]
        popped == [c EXCEPT !.todo = SubSeq(@, 1, Len(@) - 1)]
        h == ItemHandle(popped, m, item)
    IN IF h.status # "ok" \/ AlreadyDone(h.cx, h.id)
       THEN [cx |-> h.cx, m |-> h.m, status |-> h.status]
       ELSE LET st == ScanRelocs(ItemAlloc(item).relocs, 1,
                                 [cx |-> h.cx, m |-> h.m,
                                  ctx |-> DataContext(item.id, ItemSection(item)),
                                  status |-> "ok"])
            IN IF st.status # "ok"
               THEN [cx |-> st.cx, m |-> st.m, status |-> st.status]
               ELSE DefineAndMark(st, h.id)

(***************************************************************************)
(* Use sites: codegen_const_value, codegen_static_ref, codegen_tls_ref.    *)
(***************************************************************************)
\* the representation (CValue) a use site gets back
\* (offset and len are the wide integers offset_hi * 2^63 + offset and
\* len_hi * 2^63 + len)
WideValue(kind, base, id, offset, len) ==
    [kind |-> kind, base |-> base, id |-> id, offset |-> offset.lo, offset_hi |-> offset.hi,
     len |-> len.lo, len_hi |-> len.hi]

Value(kind, base, id, offset, len) == WideValue(kind, base, id, Wide(0, offset), Wide(0, len))

NoId == NamedId("")
NoValue == Value("none", "none", NoId, 0, 0)

\* tcx.create_memory_alloc(alloc): the AllocId of the allocation
create_memory_alloc(block) == MemId(block)

\* (mutant) every call declares an anonymous object of its own
pointer_for_allocation_NoDedup(c, m, block) ==
    LET alloc_id == create_memory_alloc(block)
        d == declare_anonymous_data(m, alloc_map[block].mutbl, FALSE)
        pushed == Push(c, Alloc(alloc_id))
    IN [cx |-> [pushed EXCEPT !.anon_allocs =
                   [a \in DOMAIN @ \cup {alloc_id} |-> IF a = alloc_id THEN d.id ELSE @[a]]],
        m |-> d.m, id |-> d.id]

\* pointer_for_allocation(fx, alloc): [cx, m, id]
pointer_for_allocation(c, m, block) ==
    LET alloc_id == create_memory_alloc(block)
    IN data_id_for_alloc_id(Push(c, Alloc(alloc_id)), m, alloc_id, alloc_map[block].mutbl)

\* if ptr.offset.bytes() != 0 { iadd_imm(base_addr, i64::try_from(offset).unwrap()) }
\* else { base_addr }: [ret, status]
PtrValue(base, id, offset) ==
    IF ~FitsI64(offset)
    THEN [ret |-> NoValue, status |-> "bug"]
    ELSE [ret |-> WideValue("by_val", base, id, offset, Wide(0, 0)), status |-> "ok"]

\* ConstValue::Scalar(Scalar::Ptr(ptr)) of a type with a native form;
\* ptr.offset is a wide integer
ScalarPtr(c, m, ptr) ==
    CASE ptr.id.k = "Memory" ->
           LET d == data_id_for_alloc_id(Push(c, Alloc(ptr.id)), m, ptr.id,
                                         alloc_map[ptr.id.n].mutbl)
               v == PtrValue("data", d.id, ptr.offset)
           IN [cx |-> d.cx, m |-> d.m, ret |-> v.ret, status |-> v.status]
      [] ptr.id.k = "Function" ->
           LET v == PtrValue("func", NamedId("fn"), ptr.offset)
           IN [cx |-> c, m |-> m, ret |-> v.ret, status |-> v.status]
      [] ptr.id.k = "Static" ->
           LET d == data_id_for_static(m, ptr.id.d, FALSE)
               v == PtrValue("data", d.id, ptr.offset)
           IN IF d.status # "ok"
              THEN [cx |-> c, m |-> d.m, ret |-> NoValue, status |-> d.status]
              ELSE [cx |-> c, m |-> d.m, ret |-> v.ret, status |-> v.status]
      \* None => bug!("missing allocation {:?}", ptr.alloc_id)
      [] OTHER -> [cx |-> c, m |-> m, ret |-> NoValue, status |-> "bug"]

\* (mutant) the length is computed by a plain subtraction
SliceLenOk_Always(start, end) == TRUE

\* i64::try_from(end.checked_sub(start).unwrap()).unwrap(); start and end
\* are wide integers
SliceLenOk(start, end) ==
    ~WideNegative(WideSub(end, start)) /\ FitsI64(WideSub(end, start))

\* (mutant) the zero-size test is skipped
is_zst_Never(layout) == FALSE

\* layout.is_zst()
is_zst(layout) == layout = "zst"

\* the constants a use site may lower: x is the scalar (an integer, or a
\* pointer [id, offset]), alloc the allocation of a by-reference or slice
\* constant, (a, b) the offset of the one or the bounds of the other
\* (a and b are the wide integers a_hi * 2^63 + a and b_hi * 2^63 + b)
ConstValue(form, ptr, id, block, a, b) ==
    [form |-> form, ptr |-> ptr, id |-> id, block |-> block,
     a |-> a.lo, a_hi |-> a.hi, b |-> b.lo, b_hi |-> b.hi]

ScalarInt == ConstValue("Scalar", FALSE, MissingId, 0, Wide(0, 0), Wide(0, 0))
WideScalarPtrConst(id, offset) == ConstValue("Scalar", TRUE, id, 0, offset, Wide(0, 0))
WideByRef(block, offset) == ConstValue("ByRef", FALSE, MissingId, block, offset, Wide(0, 0))
WideSlice(block, start, end) == ConstValue("Slice", FALSE, MissingId, block, start, end)

\* the same with offsets and bounds below 2^31
ScalarPtrConst(id, offset) == WideScalarPtrConst(id, Wide(0, offset))
ByRef(block, offset) == WideByRef(block, Wide(0, offset))
Slice(block, start, end) == WideSlice(block, Wide(0, start), Wide(0, end))

\* to_bits_or_ptr inside Allocation::write_scalar: a pointer is written
\* with the size of a pointer, an integer with its own size (the layout's)
write_scalar_ok(cv, size) == cv.ptr => size = PtrSize

\* layout.size in bytes
LayoutSize(layout) == IF layout = "zst" THEN 0 ELSE IF layout = "clif" THEN PtrSize ELSE 2 * PtrSize

\* (mutant) the buffer is given the size of a pointer
ScalarBuffer_PointerSized(cv, layout) ==
    [relocs |-> IF cv.ptr THEN <<WideReloc(0, 0, cv.id, cv.a_hi, cv.a)>> ELSE <<>>,
     mutbl |-> FALSE,
     len |-> PtrSize,
     written |-> [offset |-> 0, size |-> PtrSize, scalar |-> cv]]

\* Allocation::from_bytes(layout.size zero bytes), then
\* alloc.write_scalar(offset 0, x, layout.size): the scalar is stored in the
\* target's byte order, a pointer scalar leaves a relocation at offset 0
ScalarBuffer(cv, layout) ==
    [relocs |-> IF cv.ptr THEN <<WideReloc(0, 0, cv.id, cv.a_hi, cv.a)>> ELSE <<>>,
     mutbl |-> FALSE,
     len |-> LayoutSize(layout),
     written |-> [offset |-> 0, size |-> LayoutSize(layout), scalar |-> cv]]

\* codegen_const_value(fx, const_val, ty) with layout = fx.layout_of(ty):
\* "zst", "clif" (clif_type is Some) or "noclif"; am is the allocation table.
\* Result: [cx, m, am, ret, status]
codegen_const_value(c, m, am, cv, layout) ==
    \* assert!(!layout.is_unsized(), "sized const value")
    IF layout = "unsized"
    THEN [cx |-> c, m |-> m, am |-> am, status |-> "bug", ret |-> NoValue]
    ELSE IF is_zst(layout)
    THEN [cx |-> c, m |-> m, am |-> am, status |-> "ok",
          ret |-> Value("by_ref", "dangling", NoId, 0, 0)]
    ELSE CASE cv.form = "Scalar" /\ layout = "noclif" ->
                \* a buffer of layout.size zero bytes with the scalar written
                \* at offset 0 (a pointer scalar leaves a relocation there)
                IF ~write_scalar_ok(cv, LayoutSize(layout))
                THEN [cx |-> c, m |-> m, am |-> am, status |-> "bug", ret |-> NoValue]
                ELSE
                LET alloc == ScalarBuffer(cv, layout)
                    block == Len(am) + 1
                    alloc_id == create_memory_alloc(block)
                    d == data_id_for_alloc_id(Push(c, Alloc(alloc_id)), m, alloc_id, alloc.mutbl)
                IN [cx |-> d.cx, m |-> d.m, am |-> Append(am, alloc), status |-> "ok",
                    ret |-> Value("by_ref", "data", d.id, 0, 0)]
           [] cv.form = "Scalar" /\ ~cv.ptr ->
                [cx |-> c, m |-> m, am |-> am, status |-> "ok",
                 ret |-> Value("by_val", "imm", NoId, 0, 0)]
           [] cv.form = "Scalar" /\ cv.ptr ->
                LET r == ScalarPtr(c, m, [id |-> cv.id, offset |-> Wide(cv.a_hi, cv.a)])
                IN [cx |-> r.cx, m |-> r.m, am |-> am, status |-> r.status, ret |-> r.ret]
           [] cv.form = "ByRef" ->
                LET d == pointer_for_allocation(c, m, cv.block)
                    offset == Wide(cv.a_hi, cv.a)
                IN \* i64::try_from(offset.bytes()).unwrap()
                   IF ~FitsI64(offset)
                   THEN [cx |-> d.cx, m |-> d.m, am |-> am, status |-> "bug", ret |-> NoValue]
                   ELSE [cx |-> d.cx, m |-> d.m, am |-> am, status |-> "ok",
                         ret |-> WideValue("by_ref", "data", d.id, offset, Wide(0, 0))]
           [] cv.form = "Slice" ->
                LET d == pointer_for_allocation(c, m, cv.block)
                    start == Wide(cv.a_hi, cv.a)
                    end == Wide(cv.b_hi, cv.b)
                IN \* i64::try_from(start).unwrap(), then the length
                   IF ~FitsI64(start) \/ ~SliceLenOk(start, end)
                   THEN [cx |-> d.cx, m |-> d.m, am |-> am, status |-> "bug", ret |-> NoValue]
                   ELSE [cx |-> d.cx, m |-> d.m, am |-> am, status |-> "ok",
                         ret |-> WideValue("by_val_pair", "data", d.id, start,
                                           WideSub(end, start))]

\* codegen_static_ref(fx, def_id, layout): [m, ret, status]
codegen_static_ref(m, s, layout) ==
    LET d == data_id_for_static(m, s, FALSE)
    IN \* assert!(!layout.is_unsized(), "unsized statics aren't supported")
       \* assert!(matches!(.., GlobalValueData::Symbol { tls: false, .. }))
       IF d.status # "ok" \/ layout = "unsized" \/ d.m.decls[d.id].tls
       THEN [m |-> d.m, ret |-> NoValue, status |-> "bug"]
       ELSE [m |-> d.m, ret |-> Value("place", "data", d.id, 0, 0), status |-> "ok"]

\* codegen_tls_ref(fx, def_id, layout): [m, ret, status]
codegen_tls_ref(m, s) ==
    LET d == data_id_for_static(m, s, FALSE)
    IN [m |-> d.m, ret |-> Value("by_val", "tls", d.id, 0, 0), status |-> d.status]

\* the MIR constants codegen_constant may be given: a value
\* (ConstantKind::Val or ConstKind::Value), an unevaluated constant that
\* names a static, an unevaluated constant that const_eval_resolve resolves
\* to a value or fails on, and a kind codegen must never see
ValConstant(cv) == [kind |-> "Val", cv |-> cv, s |-> ""]
ValueConstant(cv) == [kind |-> "Value", cv |-> cv, s |-> ""]
StaticConstant(s) == [kind |-> "UnevaluatedStatic", cv |-> ScalarInt, s |-> s]
ResolvedConstant(cv) == [kind |-> "Unevaluated", cv |-> cv, s |-> ""]
ErroneousConstant == [kind |-> "UnevaluatedErr", cv |-> ScalarInt, s |-> ""]
ParamConstant == [kind |-> "Param", cv |-> ScalarInt, s |-> ""]

\* codegen_constant(fx, constant), layout = fx.layout_of(const_.ty):
\* [cx, m, am, ret, status]
codegen_constant(c, m, am, constant, layout) ==
    CASE constant.kind \in {"Val", "Value", "Unevaluated"} ->
           codegen_const_value(c, m, am, constant.cv, layout)
      [] constant.kind = "UnevaluatedStatic" ->
           LET r == codegen_static_ref(m, constant.s, layout)
           IN [cx |-> c, m |-> r.m, am |-> am, ret |-> r.ret, status |-> r.status]
      \* span_bug!("erroneous constant not captured by required_consts"),
      \* unreachable!()
      [] OTHER -> [cx |-> c, m |-> m, am |-> am, ret |-> NoValue, status |-> "bug"]

(***************************************************************************)
(* check_constants: the required constants of a function are evaluated     *)
(* before its body is compiled.                                            *)
(***************************************************************************)
\* a required constant: the kind of its literal after monomorphization and
\* what const_eval_resolve answers for it ("Ok" or the ErrorHandled variant)
RequiredConst(kind, eval) == [kind |-> kind, eval |-> eval]

EvalErrors == {"Reported", "Linted", "TooGeneric"}

\* the function before check_constants has run
NewFunctionCx(required) ==
    [required_consts |-> required, checked |-> FALSE,
     all_constants_ok |-> TRUE, diagnostics |-> <<>>]

\* the ErrorHandled variants answered with span_err; the other one is
\* answered with span_bug!
IsDiagnosed_All(err) == TRUE

IsDiagnosed(err) == err \in {"Reported", "Linted"}

\* the loop of check_constants from the i-th required constant on;
\* acc = [all_constants_ok, diagnostics, status], diagnostics being the
\* positions of the constants "erroneous constant encountered" was
\* emitted at
RECURSIVE check_loop(_, _, _)
check_loop(required, i, acc) ==
    IF i > Len(required) THEN acc
    ELSE LET constant == required[i]
         IN CASE constant.kind \in {"Val", "Value"} -> check_loop(required, i + 1, acc)
              [] constant.kind = "Unevaluated" ->
                   IF constant.eval = "Ok" THEN check_loop(required, i + 1, acc)
                   ELSE IF IsDiagnosed(constant.eval)
                   THEN check_loop(required, i + 1,
                                   [acc EXCEPT !.all_constants_ok = FALSE,
                                               !.diagnostics = Append(@, i)])
                   \* span_bug!("codgen encountered polymorphic constant")
                   ELSE [acc EXCEPT !.all_constants_ok = FALSE, !.status = "bug"]
              \* unreachable!()
              [] OTHER -> [acc EXCEPT !.status = "bug"]

\* check_constants(fx): [all_constants_ok, diagnostics, status]
check_constants(required) ==
    check_loop(required, 1, [all_constants_ok |-> TRUE, diagnostics |-> <<>>, status |-> "ok"])

\* the constant codegen_constant is given when the body uses a required
\* constant: const_eval_resolve answers as it did in check_constants
RequiredUse(constant) ==
    CASE constant.kind = "Val" -> ValConstant(ScalarInt)
      [] constant.kind = "Value" -> ValueConstant(ScalarInt)
      [] constant.kind = "Unevaluated" ->
           IF constant.eval = "Ok" THEN ResolvedConstant(ScalarInt) ELSE ErroneousConstant
      [] OTHER -> ParamConstant

\* the body of the function is compiled only when check_constants has
\* returned true
BodyIsCompiled(f) == f.checked /\ f.all_constants_ok

(***************************************************************************)
(* Inputs of the use sites.                                                *)
(***************************************************************************)
MaxConsts == 3

\* the required constants a function may have
RequiredConsts ==
    {RequiredConst(k, "Ok") : k \in {"Val", "Value", "Unevaluated", "Param"}}
    \cup {RequiredConst("Unevaluated", e) : e \in EvalErrors}

RequiredLists == UNION {[1..n -> RequiredConsts] : n \in 0..MaxConsts}

Offsets == {0, 4}
SliceStarts == {0, 3}
SliceEnds == {0, 7}
Layouts == {"zst", "clif", "noclif"}

\* the statics the use sites refer to
UseStatics == {"A", "T", "W"}

\* what a pointer constant may point at: the first memory allocation, the
\* function, a static, or nothing the allocation table knows
PtrTargets == {MemId(1), FnId, MissingId} \cup {StaticId(s) : s \in UseStatics}

\* every form of constant value, over the first memory allocation
ConstValues ==
    {ScalarInt}
    \cup {ScalarPtrConst(t, o) : t \in PtrTargets, o \in Offsets}
    \cup {ByRef(1, o) : o \in Offsets}
    \cup {Slice(1, st, en) : st \in SliceStarts, en \in SliceEnds}

\* the scalars lowered with a type that has no native form: integers (the
\* type of a pointer always has a native form)
ScalarFallbacks == {ScalarInt}

\* the layouts of the statics referenced: sized, or unsized (an extern
\* static of an extern type)
StaticRefLayouts == {"clif", "unsized"}

\* the MIR constants of those values, and the ones that are no value
Constants ==
    {ValConstant(cv) : cv \in ConstValues}
    \cup {ValueConstant(ScalarInt), ResolvedConstant(ScalarInt)}
    \cup {StaticConstant(s) : s \in UseStatics}
    \cup {ErroneousConstant, ParamConstant}

\* the constants that point into a memory allocation, one of each form,
\* and the pointers to the function
PointerConsts(am) ==
    {ScalarPtrConst(MemId(b), 0) : b \in 1..Len(am)}
    \cup {ByRef(b, 4) : b \in 1..Len(am)}
    \cup {Slice(b, 3, 7) : b \in 1..Len(am)}
    \cup {ScalarPtrConst(FnId, o) : o \in Offsets}

\* the define_data calls made so far on the indirection object of static s
RefCalls(m, s) ==
    IF NamedId(ref_name(s)) \in Declared(m) THEN m.calls[NamedId(ref_name(s))] ELSE 0

\* whether a reference site of static s may still be explored
MayReference(m, s) == rlinkage(s) = "None" \/ RefCalls(m, s) < MaxRefs

(***************************************************************************)
(* The state machine.                                                      *)
(***************************************************************************)
\* a use site lowers a constant value through codegen_const_value
CodegenConstValue(consts, layouts) ==
    /\ pc = "idle" /\ status = "ok"
    /\ Len(constants_cx.todo) < MaxTodo
    /\ \E layout \in layouts, cv \in consts :
         /\ (cv.form = "Scalar" /\ layout = "noclif") => Len(alloc_map) < NMem + MaxFresh
         /\ (cv.id.k = "Static" /\ layout = "clif") => MayReference(module, cv.id.d)
         /\ LET r == codegen_const_value(constants_cx, module, alloc_map, cv, layout)
            IN /\ constants_cx' = r.cx
               /\ module' = r.m
               /\ alloc_map' = r.am
               /\ ret' = r.ret
               /\ status' = r.status
    /\ UNCHANGED <<static_cx, pc, hist, fx>>

\* a use site lowers a MIR constant through codegen_constant
CodegenConstant(constants, layouts) ==
    /\ pc = "idle" /\ status = "ok"
    /\ Len(constants_cx.todo) < MaxTodo
    /\ \E layout \in layouts, constant \in constants :
         /\ (constant.cv.form = "Scalar" /\ layout = "noclif") =>
                Len(alloc_map) < NMem + MaxFresh /\ constant.cv \in ScalarFallbacks
         /\ (constant.cv.id.k = "Static" /\ layout = "clif") => MayReference(module, constant.cv.id.d)
         /\ constant.kind = "UnevaluatedStatic" => MayReference(module, constant.s)
         /\ LET r == codegen_constant(constants_cx, module, alloc_map, constant, layout)
            IN /\ constants_cx' = r.cx
               /\ module' = r.m
               /\ alloc_map' = r.am
               /\ ret' = r.ret
               /\ status' = r.status
    /\ UNCHANGED <<static_cx, pc, hist, fx>>

\* a reference to a static through codegen_static_ref
CodegenStaticRef(statics, layouts) ==
    /\ pc = "idle" /\ status = "ok"
    /\ \E s \in statics, layout \in layouts :
         /\ MayReference(module, s)
         /\ LET r == codegen_static_ref(module, s, layout)
            IN module' = r.m /\ ret' = r.ret /\ status' = r.status
    /\ UNCHANGED <<alloc_map, constants_cx, static_cx, pc, hist, fx>>

\* Rvalue::ThreadLocalRef of a thread-local static
CodegenTlsRef(statics) ==
    /\ pc = "idle" /\ status = "ok"
    /\ \E s \in {t \in statics : thread_local(t)} :
         /\ MayReference(module, s)
         /\ LET r == codegen_tls_ref(module, s)
            IN module' = r.m /\ ret' = r.ret /\ status' = r.status
    /\ UNCHANGED <<alloc_map, constants_cx, static_cx, pc, hist, fx>>

\* check_constants(fx) at the start of the codegen of the function
CheckConstants ==
    /\ pc = "idle" /\ status = "ok"
    /\ ~fx.checked
    /\ LET r == check_constants(fx.required_consts)
       IN /\ fx' = [fx EXCEPT !.checked = TRUE,
                              !.all_constants_ok = r.all_constants_ok,
                              !.diagnostics = r.diagnostics]
          /\ status' = r.status
    /\ ret' = NoValue
    /\ UNCHANGED <<alloc_map, module, constants_cx, static_cx, pc, hist>>

\* the body of the function uses its i-th required constant
CodegenRequired ==
    /\ pc = "idle" /\ status = "ok"
    /\ BodyIsCompiled(fx)
    /\ \E i \in DOMAIN fx.required_consts :
         LET r == codegen_constant(constants_cx, module, alloc_map,
                                   RequiredUse(fx.required_consts[i]), "clif")
         IN /\ constants_cx' = r.cx
            /\ module' = r.m
            /\ alloc_map' = r.am
            /\ ret' = r.ret
            /\ status' = r.status
    /\ UNCHANGED <<static_cx, pc, hist, fx>>

\* the handle data_id_for_static returns for static s: the indirection
\* object when s carries a linkage hint
StaticHandle(s) ==
    IF rlinkage(s) # "None" THEN NamedId(ref_name(s)) ELSE NamedId(symbol_name(s))

\* the data_id of a pushed item in ConstantCx c
ObjectOf(c, item) ==
    IF item.tag = "Alloc" THEN c.anon_allocs[item.id] ELSE StaticHandle(item.id.d)

\* the item on top of c.todo has a handle that is already in done
TopIsDone(c) ==
    /\ c.todo # <<>>
    /\ LET item == c.todo[Len(c.todo)]
       IN /\ item.tag = "Alloc" => item.id \in DOMAIN c.anon_allocs
          /\ ObjectOf(c, item) \in c.done

\* codegen_static(tcx, module, def_id): a new ConstantCx holding the static
CodegenStatic(statics) ==
    /\ pc = "idle" /\ status = "ok"
    /\ \E s \in statics :
         /\ static_cx' = Push(NewConstantCx, Static(s))
         /\ hist' = [hist EXCEPT !.requested[s] = @ + 1]
    /\ pc' = "static"
    /\ ret' = NoValue
    /\ UNCHANGED <<alloc_map, module, constants_cx, status, fx>>

\* constants_cx.finalize(tcx, module) at the end of the codegen unit
Finalize ==
    /\ pc = "idle" /\ status = "ok"
    /\ pc' = "finalize"
    /\ ret' = NoValue
    /\ UNCHANGED <<alloc_map, module, constants_cx, static_cx, status, hist, fx>>

\* one iteration of the loop of define_all_allocs under codegen_static
DrainStatic ==
    /\ pc = "static" /\ status = "ok"
    /\ static_cx.todo # <<>>
    /\ LET r == PopStep(static_cx, module)
       IN static_cx' = r.cx /\ module' = r.m /\ status' = r.status
    /\ hist' = [hist EXCEPT !.skipped = IF TopIsDone(static_cx) THEN @ \cup {pc} ELSE @]
    /\ UNCHANGED <<alloc_map, constants_cx, pc, ret, fx>>

\* one iteration of the loop of define_all_allocs under ConstantCx::finalize
DrainFinalize ==
    /\ pc = "finalize" /\ status = "ok"
    /\ constants_cx.todo # <<>>
    /\ LET r == PopStep(constants_cx, module)
       IN constants_cx' = r.cx /\ module' = r.m /\ status' = r.status
    /\ hist' = [hist EXCEPT !.skipped = IF TopIsDone(constants_cx) THEN @ \cup {pc} ELSE @]
    /\ UNCHANGED <<alloc_map, static_cx, pc, ret, fx>>

\* todo.pop() is None: assert!(cx.todo.is_empty()); self.done.clear()
ReturnStatic ==
    /\ pc = "static" /\ status = "ok"
    /\ static_cx.todo = <<>>
    /\ static_cx' = [static_cx EXCEPT !.done = {}]
    /\ pc' = "idle"
    /\ UNCHANGED <<alloc_map, module, constants_cx, status, ret, hist, fx>>

ReturnFinalize ==
    /\ pc = "finalize" /\ status = "ok"
    /\ constants_cx.todo = <<>>
    /\ constants_cx' = [constants_cx EXCEPT !.done = {}]
    /\ pc' = "finished"
    /\ UNCHANGED <<alloc_map, module, static_cx, status, ret, hist, fx>>

InitIn(worlds) ==
    /\ alloc_map \in worlds
    /\ module = EmptyModule
    /\ constants_cx = NewConstantCx
    /\ static_cx = NewConstantCx
    /\ pc = "idle"
    /\ status = "ok"
    /\ ret = NoValue
    /\ hist = [requested |-> [s \in DefIds |-> 0], skipped |-> {}]
    /\ fx = NewFunctionCx(<<>>)

(***************************************************************************)
(* Spec: any allocation graph; the use sites lower pointers into memory    *)
(* allocations and at the function, static A is requested, the codegen     *)
(* unit is finalized.                                                      *)
(***************************************************************************)
Init == InitIn(Worlds)

Next ==
    \/ CodegenConstValue(PointerConsts(alloc_map), {"clif"})
    \/ CodegenStatic({"A"})
    \/ Finalize
    \/ DrainStatic
    \/ DrainFinalize
    \/ ReturnStatic
    \/ ReturnFinalize

Spec == Init /\ [][Next]_vars

(***************************************************************************)
(* SpecUse: every form of constant and every static at the use sites of a  *)
(* codegen unit whose allocations form a ring.                             *)
(***************************************************************************)
InitUse == InitIn(RingWorlds)

NextUse ==
    \/ CodegenConstant(Constants, Layouts)
    \/ CodegenTlsRef(UseStatics)
    \/ Finalize
    \/ DrainFinalize
    \/ ReturnFinalize

SpecUse == InitUse /\ [][NextUse]_vars

(***************************************************************************)
(* SpecStatics: every static is requested and referenced.                  *)
(***************************************************************************)
NextStatics ==
    \/ CodegenStaticRef(DefIds, StaticRefLayouts)
    \/ CodegenStatic(DefIds)
    \/ DrainStatic
    \/ ReturnStatic

SpecStatics == InitUse /\ [][NextStatics]_vars

(***************************************************************************)
(* SpecWide: allocations whose relocations sit at offsets on both sides of *)
(* 2^32 and store integers on both sides of 2^63.                          *)
(***************************************************************************)
\* the offsets 0 and 2^32 + 8
WideOffsets == {Size(0, 0), Size(1, PtrSize)}
\* the stored integers 4, 2^63 and 2^64 - 4
WideAddends == {Wide(0, 4), Wide(1, 0), Wide(2, -4)}

\* every allocation is free of relocations or holds one relocation, to the
\* next allocation or to static A
WideRelocs(i) ==
    {WideReloc(o.hi, o.lo, t, a.hi, a.lo) :
        o \in WideOffsets, a \in WideAddends, t \in {MemId((i % NMem) + 1), StaticId("A")}}

WideAllocations(i) ==
    {[relocs |-> <<>>, mutbl |-> FALSE]}
    \cup {[relocs |-> <<r>>, mutbl |-> FALSE] : r \in WideRelocs(i)}

WideWorlds ==
    {w \in [1..NMem -> UNION {WideAllocations(i) : i \in 1..NMem}] :
        \A i \in 1..NMem : w[i] \in WideAllocations(i)}

\* the use sites point at the memory allocations and at the function, with offsets 0, 2^63 - 1 and 2^63
WidePointers(am) ==
    {ScalarPtrConst(MemId(b), 0) : b \in 1..Len(am)}
    \cup {WideScalarPtrConst(t, o) : t \in {MemId(1), FnId}, o \in {Wide(1, -1), Wide(1, 0)}}

InitWide == InitIn(WideWorlds)

NextWide ==
    \/ CodegenConstValue(WidePointers(alloc_map), {"clif"})
    \/ Finalize
    \/ DrainFinalize
    \/ ReturnFinalize

SpecWide == InitWide /\ [][NextWide]_vars

(***************************************************************************)
(* SpecCheck: a function with any list of required constants is checked,   *)
(* and its body compiled when the check allows it.                         *)
(***************************************************************************)
InitCheck ==
    /\ alloc_map \in RingWorlds
    /\ module = EmptyModule
    /\ constants_cx = NewConstantCx
    /\ static_cx = NewConstantCx
    /\ pc = "idle"
    /\ status = "ok"
    /\ ret = NoValue
    /\ hist = [requested |-> [s \in DefIds |-> 0], skipped |-> {}]
    /\ fx \in {NewFunctionCx(required) : required \in RequiredLists}

NextCheck ==
    \/ CheckConstants
    \/ CodegenRequired
    \/ Finalize
    \/ ReturnFinalize

SpecCheck == InitCheck /\ [][NextCheck]_vars

(***************************************************************************)
(* Definitions shared by the properties.                                   *)
(***************************************************************************)
\* the ConstantCx has been drained and its finalize has returned
FinalizeReturned == pc = "finished"
StaticReturned == pc # "static" /\ static_cx.pushed # {}

DefinedOnce(h) ==
    h \in Declared(module) /\ module.defs[h].defined /\ module.calls[h] = 1

Range(f) == {f[x] : x \in DOMAIN f}
Injective(f) == \A x, y \in DOMAIN f : f[x] = f[y] => x = y

\* every pushed item of c is defined by exactly one define_data call and no
\* handle of anon_allocs is left undefined
AllDefined(c) ==
    /\ \A item \in c.pushed :
         /\ item.tag = "Alloc" => item.id \in DOMAIN c.anon_allocs
         /\ DefinedOnce(ObjectOf(c, item))
    /\ \A h \in Range(c.anon_allocs) : h \in Declared(module) /\ module.defs[h].defined

(***************************************************************************)
(* C1: once finalize (define_all_allocs) has returned for a ConstantCx,    *)
(* every allocation ever pushed onto its todo and the static pushed by     *)
(* codegen_static have had define_data performed exactly once and no       *)
(* anonymous object of anon_allocs is declared but undefined.              *)
(***************************************************************************)
C1_AllDefinedOnce ==
    /\ FinalizeReturned => AllDefined(constants_cx)
    /\ StaticReturned => AllDefined(static_cx)

\* finalize has returned after defining an allocation found by relocation
\* scanning only, two allocations that point at each other, and static A
C1_Witness ==
    /\ FinalizeReturned /\ StaticReturned
    /\ Static("A") \in static_cx.pushed
    /\ \E a, b \in DOMAIN constants_cx.anon_allocs :
         /\ a # b
         /\ \E i \in 1..Len(module.defs[constants_cx.anon_allocs[a]].relocs) :
              module.defs[constants_cx.anon_allocs[a]].relocs[i].id = constants_cx.anon_allocs[b]
         /\ \E i \in 1..Len(module.defs[constants_cx.anon_allocs[b]].relocs) :
              module.defs[constants_cx.anon_allocs[b]].relocs[i].id = constants_cx.anon_allocs[a]

(***************************************************************************)
(* C2: data_id_for_alloc_id is idempotent within one ConstantCx.  In every *)
(* step, an identity that has a handle keeps it, every identity that gets  *)
(* a handle gets a newly declared anonymous object of its own (the module  *)
(* gains exactly one anonymous object per new identity and none            *)
(* otherwise), and distinct identities never share a handle.               *)
(***************************************************************************)
KeepsHandles(c, d) ==
    \A a \in DOMAIN c.anon_allocs :
        a \in DOMAIN d.anon_allocs /\ d.anon_allocs[a] = c.anon_allocs[a]

NewIdentities(c, d) == DOMAIN d.anon_allocs \ DOMAIN c.anon_allocs

\* codegen_static starts on a ConstantCx of its own
NewStaticCx == pc = "idle" /\ pc' = "static"

C2_Step ==
    /\ KeepsHandles(constants_cx, constants_cx')
    /\ ~NewStaticCx => KeepsHandles(static_cx, static_cx')
    /\ \A a \in NewIdentities(constants_cx, constants_cx') :
         constants_cx'.anon_allocs[a] \notin Declared(module)
    /\ ~NewStaticCx => \A a \in NewIdentities(static_cx, static_cx') :
         static_cx'.anon_allocs[a] \notin Declared(module)
    /\ module'.nanon = module.nanon
         + Cardinality(NewIdentities(constants_cx, constants_cx'))
         + (IF NewStaticCx THEN 0 ELSE Cardinality(NewIdentities(static_cx, static_cx')))
    \* the handle a use site gets back is the one recorded for the identity
    /\ (ret' # NoValue /\ ret'.base = "data" /\ ret'.id.name = "") =>
         /\ constants_cx'.todo # <<>>
         /\ ret'.id = ObjectOf(constants_cx', constants_cx'.todo[Len(constants_cx'.todo)])
    /\ Injective(constants_cx'.anon_allocs)
    /\ Injective(static_cx'.anon_allocs)
    /\ Range(constants_cx'.anon_allocs) \cap Range(static_cx'.anon_allocs) = {}

C2_HandleIdempotent == [][C2_Step]_vars

\* an identity that already had a handle has been pushed again, by a use
\* site and by relocation scanning, while its handle is done
C2_Witness ==
    /\ pc = "finalize"
    /\ \E a \in DOMAIN constants_cx.anon_allocs :
         /\ constants_cx.anon_allocs[a] \in constants_cx.done
         /\ \E i \in 1..Len(constants_cx.todo) : constants_cx.todo[i] = Alloc(a)
         /\ \E b \in DOMAIN constants_cx.anon_allocs :
              /\ b # a
              /\ constants_cx.anon_allocs[b] \in constants_cx.done
              /\ \E i \in 1..Len(module.defs[constants_cx.anon_allocs[b]].relocs) :
                   module.defs[constants_cx.anon_allocs[b]].relocs[i].id
                     = constants_cx.anon_allocs[a]

(***************************************************************************)
(* C3: constants that point at the same allocation identity get the same   *)
(* data object handle, whatever their form (scalar pointer, by-reference,  *)
(* slice) and whatever was lowered before: lowering one and then another   *)
(* returns the same handle twice, the second lowering declares nothing,    *)
(* an identity that already has a handle gets that handle, and once        *)
(* finalize has returned the identity's one object is defined once.        *)
(***************************************************************************)
FormsOf(b) ==
    {ScalarPtrConst(MemId(b), o) : o \in Offsets}
    \cup {ByRef(b, o) : o \in Offsets}
    \cup {Slice(b, p[1], p[2]) : p \in {q \in SliceStarts \X SliceEnds : q[1] <= q[2]}}

\* one constant of each form that points into allocation b
OneOfEachForm(b) == {ScalarPtrConst(MemId(b), 0), ByRef(b, 4), Slice(b, 3, 7)}

C3_SameHandle ==
    /\ (pc = "idle" /\ status = "ok") =>
         \A b \in 1..Len(alloc_map) :
            \* r0: a scalar pointer at allocation b lowered in this state
            \A r0 \in {codegen_const_value(constants_cx, module, alloc_map,
                                           ScalarPtrConst(MemId(b), 0), "clif")} :
               \* r1: any form lowered in this state instead
               /\ \A cv1 \in FormsOf(b) :
                    \A r1 \in {codegen_const_value(constants_cx, module, alloc_map, cv1, "clif")} :
                       /\ r1.status = "ok"
                       /\ r1.ret.id = r0.ret.id
                       /\ r1.m = r0.m
                       /\ r1.cx.anon_allocs = r0.cx.anon_allocs
                       /\ r1.m.nanon <= module.nanon + 1
                       /\ MemId(b) \in DOMAIN constants_cx.anon_allocs =>
                            r1.ret.id = constants_cx.anon_allocs[MemId(b)] /\ r1.m = module
               \* r2: one form lowered right after another
               /\ \A cv1, cv2 \in OneOfEachForm(b) :
                    \A r1 \in {codegen_const_value(constants_cx, module, alloc_map, cv1, "clif")} :
                    \A r2 \in {codegen_const_value(r1.cx, r1.m, r1.am, cv2, "clif")} :
                       /\ r2.status = "ok"
                       /\ r2.ret.id = r1.ret.id
                       /\ r2.m = r1.m
    /\ FinalizeReturned =>
         \A a \in DOMAIN constants_cx.anon_allocs : DefinedOnce(constants_cx.anon_allocs[a])

\* a slice constant has just been given the handle of an allocation that an
\* earlier use site had already enqueued
C3_Witness ==
    /\ pc = "idle" /\ status = "ok"
    /\ ret.kind = "by_val_pair"
    /\ \E i, j \in 1..Len(constants_cx.todo) :
         /\ i < j
         /\ constants_cx.todo[i] = constants_cx.todo[j]
         /\ ret.id = constants_cx.anon_allocs[constants_cx.todo[i].id]

(***************************************************************************)
(* Termination of the drain loop, as a variant: the length of todo plus,   *)
(* for every identity not yet done, one more than the most items the       *)
(* definition of one object can push.  It is never negative and every      *)
(* iteration of the loop that does not end the process decreases it.       *)
(***************************************************************************)
RECURSIVE MaxLen(_)
MaxLen(S) ==
    IF S = {} THEN 0
    ELSE LET x == CHOOSE y \in S : TRUE
             rest == MaxLen(S \ {x})
         IN IF Len(x.relocs) > rest THEN Len(x.relocs) ELSE rest

\* the most relocations one buffer holds
MaxPushes ==
    MaxLen({alloc_map[i] : i \in 1..Len(alloc_map)}
           \cup {eval_static_initializer(s) : s \in DefIds})

\* the data objects one ConstantCx can define: one per memory allocation and
\* one per static
Definable == Len(alloc_map) + Cardinality(DefIds)

Variant(c) == Len(c.todo) + (MaxPushes + 1) * (Definable - Cardinality(c.done))

DrainProgress(c, d) ==
    /\ Variant(c) >= 0
    /\ status' = "ok" => Variant(d) < Variant(c)

(***************************************************************************)
(* C4: statics A and B point at each other.  Once codegen_static has been  *)
(* requested once for A and once for B, in either order, and has returned, *)
(* both are declared, each has been defined by exactly one define_data     *)
(* call, A's relocation targets B's handle and B's targets A's; no drain   *)
(* enqueues a static again and every drain ends (each iteration decreases  *)
(* the variant).                                                           *)
(***************************************************************************)
StaticItems(c) == {item \in c.pushed : item.tag = "Static"}

C4_State ==
    /\ (hist.requested["A"] = 1 /\ hist.requested["B"] = 1 /\ pc = "idle") =>
         /\ DefinedOnce(NamedId("A")) /\ DefinedOnce(NamedId("B"))
         /\ module.defs[NamedId("A")].init = StaticId("A")
         /\ module.defs[NamedId("B")].init = StaticId("B")
         /\ module.defs[NamedId("A")].relocs[1]
              = [offset |-> 0, kind |-> "data", id |-> NamedId("B"), addend |-> 0,
                 addend_hi |-> 0]
         /\ module.defs[NamedId("B")].relocs
              = <<[offset |-> 0, kind |-> "data", id |-> NamedId("A"), addend |-> 4,
                   addend_hi |-> 0]>>
    /\ Cardinality(StaticItems(static_cx)) <= 1
    /\ StaticItems(constants_cx) = {}

C4_Step == (pc = "static" /\ pc' = "static") => DrainProgress(static_cx, static_cx')

C4_StaticCycle == []C4_State /\ [][C4_Step]_vars

\* B was requested after A (B is then declared by A's relocation before it
\* is defined) and both drains have returned
C4_Witness ==
    /\ hist.requested["A"] = 1 /\ hist.requested["B"] = 1
    /\ pc = "idle" /\ status = "ok"
    /\ Static("B") \in static_cx.pushed
    /\ module.defs[NamedId("A")].defined /\ module.defs[NamedId("B")].defined

(***************************************************************************)
(* C5: define_all_allocs terminates on every allocation graph, with self   *)
(* references, cycles and duplicates in todo: every iteration decreases    *)
(* the variant, the define_data calls made for the allocations of a        *)
(* ConstantCx never outnumber the identities reachable from what was       *)
(* pushed, and todo is empty when the loop is left.                        *)
(***************************************************************************)
MemTargets(alloc) ==
    {alloc.relocs[i].target : i \in {j \in 1..Len(alloc.relocs) : alloc.relocs[j].target.k = "Memory"}}

RECURSIVE Closure(_)
Closure(S) ==
    LET T == S \cup UNION {MemTargets(alloc_map[a.n]) : a \in S}
    IN IF T = S THEN S ELSE Closure(T)

\* the memory allocations reachable from the items pushed onto c.todo
Reachable(c) ==
    Closure({item.id : item \in {i \in c.pushed : i.tag = "Alloc"}}
            \cup UNION {MemTargets(eval_static_initializer(item.id.d)) :
                          item \in {i \in c.pushed : i.tag = "Static"}})

RECURSIVE Sum(_, _)
Sum(f, S) ==
    IF S = {} THEN 0
    ELSE LET x == CHOOSE y \in S : TRUE IN f[x] + Sum(f, S \ {x})

\* the define_data calls made for the allocations of c
DefineCalls(c) == Sum(module.calls, Range(c.anon_allocs))

C5_State ==
    /\ DefineCalls(constants_cx) <= Cardinality(Reachable(constants_cx))
    /\ DefineCalls(static_cx) <= Cardinality(Reachable(static_cx))
    /\ FinalizeReturned => constants_cx.todo = <<>>
    /\ StaticReturned => static_cx.todo = <<>>

C5_Step ==
    /\ (pc = "finalize" /\ pc' = "finalize") => DrainProgress(constants_cx, constants_cx')
    /\ (pc = "static" /\ pc' = "static") => DrainProgress(static_cx, static_cx')

C5_Terminates == []C5_State /\ [][C5_Step]_vars

\* the drain has defined an allocation that points at itself and still has
\* a duplicate of it in todo
C5_Witness ==
    /\ pc = "finalize"
    /\ \E a \in DOMAIN constants_cx.anon_allocs :
         /\ constants_cx.anon_allocs[a] \in constants_cx.done
         /\ \E i \in 1..Len(module.defs[constants_cx.anon_allocs[a]].relocs) :
              module.defs[constants_cx.anon_allocs[a]].relocs[i].id = constants_cx.anon_allocs[a]
         /\ \E i, j \in 1..Len(constants_cx.todo) :
              i # j /\ constants_cx.todo[i] = Alloc(a) /\ constants_cx.todo[j] = Alloc(a)

(***************************************************************************)
(* C6: enqueuing an item more than once is harmless.  Popping an item      *)
(* whose handle is already in done changes nothing but todo: no            *)
(* declaration, no define_data call, no error.  Draining a todo that holds *)
(* duplicates leaves the module with the same objects, keyed by identity,  *)
(* as draining the todo with each item enqueued once, every object defined *)
(* by one define_data call.                                                *)
(***************************************************************************)
\* the whole loop of define_all_allocs, run from ConstantCx c and module m
RECURSIVE DrainAll(_, _)
DrainAll(c, m) ==
    IF c.todo = <<>> THEN [cx |-> c, m |-> m, status |-> "ok"]
    ELSE LET r == PopStep(c, m)
         IN IF r.status # "ok" THEN r ELSE DrainAll(r.cx, r.m)

\* todo with every item kept at its first position only
RECURSIVE Once(_)
Once(todo) ==
    IF todo = <<>> THEN <<>>
    ELSE LET front == SubSeq(todo, 1, Len(todo) - 1)
             item == todo[Len(todo)]
         IN IF item \in Range(front) THEN Once(front) ELSE Append(Once(front), item)

\* the identity a handle stands for: the AllocId of an anonymous object, the
\* handle itself (its symbol) for a named one
IdentityOf(c, h) ==
    IF h \in Range(c.anon_allocs)
    THEN CHOOSE a \in DOMAIN c.anon_allocs : c.anon_allocs[a] = h
    ELSE h

\* what the module holds for handle h after the drain r, handles replaced by
\* the identities they stand for
ObjectContents(r, h) ==
    LET d == r.m.defs[h]
    IN [decl |-> r.m.decls[h],
        defined |-> d.defined,
        init |-> d.init,
        section |-> d.section,
        calls |-> r.m.calls[h],
        relocs |-> [i \in DOMAIN d.relocs |->
                      [offset |-> d.relocs[i].offset,
                       kind |-> d.relocs[i].kind,
                       addend |-> d.relocs[i].addend,
                       addend_hi |-> d.relocs[i].addend_hi,
                       target |-> IdentityOf(r.cx, d.relocs[i].id)]]]

ModuleContents(r) ==
    [x \in {IdentityOf(r.cx, h) : h \in Declared(r.m)} |->
        ObjectContents(r, CHOOSE h \in Declared(r.m) : IdentityOf(r.cx, h) = x)]

SameOutcome(once, many) ==
    /\ once.status = "ok" <=> many.status = "ok"
    /\ once.status = "ok" =>
         /\ ModuleContents(once) = ModuleContents(many)
         /\ \A a \in DOMAIN many.cx.anon_allocs : many.m.calls[many.cx.anon_allocs[a]] = 1

HasDuplicates(todo) == Once(todo) # todo

C6_State ==
    (pc = "idle" /\ HasDuplicates(constants_cx.todo)) =>
        SameOutcome(DrainAll([constants_cx EXCEPT !.todo = Once(@)], module),
                    DrainAll(constants_cx, module))

PopOnly(c, d) ==
    /\ d = [c EXCEPT !.todo = SubSeq(@, 1, Len(@) - 1)]
    /\ module' = module
    /\ status' = "ok"

C6_Step ==
    /\ (pc = "finalize" /\ pc' = "finalize" /\ TopIsDone(constants_cx))
          => PopOnly(constants_cx, constants_cx')
    /\ (pc = "static" /\ pc' = "static" /\ TopIsDone(static_cx))
          => PopOnly(static_cx, static_cx')

C6_DuplicatesHarmless == []C6_State /\ [][C6_Step]_vars

\* a drain has just popped a duplicate of an allocation it had defined, and
\* has returned with that allocation defined once
C6_Witness ==
    /\ FinalizeReturned
    /\ \E a \in DOMAIN constants_cx.anon_allocs :
         /\ DefinedOnce(constants_cx.anon_allocs[a])
         /\ "finalize" \in hist.skipped

(***************************************************************************)
(* C7: an allocation with a relocation whose target is a thread-local      *)
(* static is never defined.  The loop iteration that pops it ends the      *)
(* process with a fatal error; no define_data call is ever made on its     *)
(* handle and its handle never enters done.                                *)
(***************************************************************************)
\* the allocation has a relocation whose target is a thread-local static
CapturesTls(alloc) ==
    \E i \in 1..Len(alloc.relocs) :
        alloc.relocs[i].target.k = "Static" /\ thread_local(alloc.relocs[i].target.d)

NeverDefined(c) ==
    \A a \in DOMAIN c.anon_allocs :
        CapturesTls(alloc_map[a.n]) =>
            /\ module.calls[c.anon_allocs[a]] = 0
            /\ ~module.defs[c.anon_allocs[a]].defined
            /\ c.anon_allocs[a] \notin c.done

C7_State == NeverDefined(constants_cx) /\ NeverDefined(static_cx)

\* the item on top of c.todo is an allocation that captures a thread-local
TopCapturesTls(c) ==
    /\ c.todo # <<>>
    /\ c.todo[Len(c.todo)].tag = "Alloc"
    /\ CapturesTls(alloc_map[c.todo[Len(c.todo)].id.n])

C7_Step ==
    /\ (pc = "finalize" /\ constants_cx' # constants_cx /\ TopCapturesTls(constants_cx))
          => status' = "fatal" /\ pc' = "finalize"
    /\ (pc = "static" /\ static_cx' # static_cx /\ pc' = "static" /\ TopCapturesTls(static_cx))
          => status' = "fatal"

C7_TlsCaptureFatal == []C7_State /\ [][C7_Step]_vars

\* finalize has ended with the fatal error on an allocation that points at
\* the thread-local static T
C7_Witness ==
    /\ status = "fatal" /\ pc = "finalize"
    /\ \E a \in DOMAIN constants_cx.anon_allocs :
         /\ CapturesTls(alloc_map[a.n])
         /\ module.calls[constants_cx.anon_allocs[a]] = 0
         /\ Alloc(a) \notin Range(constants_cx.todo)

(***************************************************************************)
(* C8: every reference to a static with a weak linkage hint returns the    *)
(* handle of its indirection object.  The first reference defines that     *)
(* object as one pointer to the static's symbol; each later reference      *)
(* calls define_data again, the module answers DuplicateDefinition, the    *)
(* answer is accepted (no error) and the definition stays as it was.       *)
(***************************************************************************)
RefId(s) == NamedId(ref_name(s))

\* a pointer-sized zeroed object holding the address of the symbol of s
IndirectionOf(s) ==
    write_data_addr(DataContext(Zeroes(PtrSize), "None"), 0, NamedId(symbol_name(s)),
                    Wide(0, 0))

HintedStatics == {s \in DefIds : rlinkage(s) # "None"}

C8_State ==
    \A s \in HintedStatics :
        RefId(s) \in Declared(module) =>
            /\ module.calls[RefId(s)] >= 1
            /\ module.defs[RefId(s)] = IndirectionOf(s)
            /\ module.decls[RefId(s)].linkage = "Local"
            /\ NamedId(symbol_name(s)) \in Declared(module)

\* a step that has referenced s: one more define_data call on its
\* indirection object
References(s) == RefCalls(module', s) = RefCalls(module, s) + 1

C8_Step ==
    \A s \in HintedStatics :
        References(s) =>
            /\ status' = "ok"
            /\ pc = "idle" => ret'.id = RefId(s)
            /\ RefCalls(module, s) >= 1 => module'.defs[RefId(s)] = module.defs[RefId(s)]

C8_WeakStaticOnce == []C8_State /\ [][C8_Step]_vars

\* the weak static W has been referenced three times
C8_Witness ==
    /\ status = "ok"
    /\ RefCalls(module, "W") = 3
    /\ ret.id = RefId("W")
    /\ module.defs[RefId("W")] = IndirectionOf("W")

(***************************************************************************)
(* C9: lowering a constant of zero-size layout declares nothing.  As       *)
(* claimed, for codegen_constant and codegen_const_value alike and every   *)
(* constant: the module, the todo queue, the dedup table and the           *)
(* allocation table are left as they were.                                 *)
(***************************************************************************)
\* lowering result r has left ConstantCx, module and allocations untouched
Untouched(r) ==
    /\ r.cx = constants_cx
    /\ r.m = module
    /\ r.am = alloc_map

C9_Original ==
    /\ \A cv \in ConstValues \cup PointerConsts(alloc_map) :
         Untouched(codegen_const_value(constants_cx, module, alloc_map, cv, "zst"))
    /\ \A constant \in Constants :
         Untouched(codegen_constant(constants_cx, module, alloc_map, constant, "zst"))

(***************************************************************************)
(* C9 (amended): lowering a constant value of zero-size layout through     *)
(* codegen_const_value, or through codegen_constant when the constant is   *)
(* not an unevaluated constant that names a static, leaves the module, the *)
(* todo queue, the dedup table and the allocation table as they were and   *)
(* returns the dangling representation, whatever the form of the value.    *)
(* An unevaluated constant that names a static is lowered by               *)
(* codegen_static_ref, which declares the static's data object whatever    *)
(* the layout.                                                             *)
(***************************************************************************)
ReachesConstValue(constant) == constant.kind \in {"Val", "Value", "Unevaluated"}

Dangling(r) == r.status = "ok" /\ r.ret.base = "dangling" /\ r.ret.id = NoId

C9_ZeroSizeDeclaresNothing ==
    /\ \A cv \in ConstValues \cup PointerConsts(alloc_map) :
         LET r == codegen_const_value(constants_cx, module, alloc_map, cv, "zst")
         IN Untouched(r) /\ Dangling(r)
    /\ \A constant \in {k \in Constants : ReachesConstValue(k)} :
         LET r == codegen_constant(constants_cx, module, alloc_map, constant, "zst")
         IN Untouched(r) /\ Dangling(r)
    /\ \A constant \in {k \in Constants : k.kind = "UnevaluatedStatic"} :
         LET r == codegen_constant(constants_cx, module, alloc_map, constant, "zst")
         IN NamedId(symbol_name(constant.s)) \in Declared(r.m)

\* a zero-size constant has just been lowered by a use site that had
\* pushed allocations before
C9_Witness ==
    /\ pc = "idle" /\ status = "ok"
    /\ ret.base = "dangling"
    /\ constants_cx.todo # <<>>
    /\ Declared(module) # {}

(***************************************************************************)
(* C10: a pointer at a function never carries an offset.  As claimed: an   *)
(* allocation with a relocation at a function and a non-zero stored value  *)
(* is never defined, the iteration that scans it ends in an internal       *)
(* error, and a use site never returns a function address plus an offset.  *)
(***************************************************************************)
\* the allocation has a relocation at a function with a non-zero addend
HasFunctionAddend(alloc) ==
    \E i \in 1..Len(alloc.relocs) :
        alloc.relocs[i].target.k = "Function" /\ read_addend(alloc.relocs[i]) # Wide(0, 0)

NoFunctionAddendDefined(c) ==
    \A a \in DOMAIN c.anon_allocs :
        HasFunctionAddend(alloc_map[a.n]) =>
            /\ module.calls[c.anon_allocs[a]] = 0
            /\ ~module.defs[c.anon_allocs[a]].defined
            /\ c.anon_allocs[a] \notin c.done

ScanState == NoFunctionAddendDefined(constants_cx) /\ NoFunctionAddendDefined(static_cx)

TopHasFunctionAddend(c) ==
    /\ c.todo # <<>>
    /\ c.todo[Len(c.todo)].tag = "Alloc"
    /\ HasFunctionAddend(alloc_map[c.todo[Len(c.todo)].id.n])

ScanStep ==
    /\ (pc = "finalize" /\ constants_cx' # constants_cx /\ TopHasFunctionAddend(constants_cx))
          => status' = "bug" /\ pc' = "finalize"
    /\ (pc = "static" /\ static_cx' # static_cx /\ pc' = "static" /\ TopHasFunctionAddend(static_cx))
          => status' = "bug"

\* what a use site has returned is no function address with an offset
NoFunctionOffsetReturned == ret.base = "func" => ret.offset = 0

C10_Original == [](ScanState /\ NoFunctionOffsetReturned) /\ [][ScanStep]_vars

(***************************************************************************)
(* C10 (amended): a non-zero addend on a function target is a hard         *)
(* internal error when the pointer is a relocation found while scanning a  *)
(* buffer in define_all_allocs: the iteration ends in the error and the    *)
(* buffer is never defined.  At a use site codegen_const_value makes no    *)
(* such check: a scalar pointer at a function whose offset is below 2^63   *)
(* is lowered without error to the function's address plus the offset, and *)
(* nothing is declared or enqueued.  An offset of 2^63 or more is an        *)
(* internal error, as it is for every other target.                        *)
(***************************************************************************)
\* the offsets 0, 4, 2^63 - 1 and 2^63
FunctionOffsets == {Wide(0, 0), Wide(0, 4), Wide(1, -1), Wide(1, 0)}

UseSiteFunctionPointer ==
    \A o \in FunctionOffsets :
        LET r == codegen_const_value(constants_cx, module, alloc_map,
                                     WideScalarPtrConst(FnId, o), "clif")
        IN /\ Untouched(r)
           /\ IF o = Wide(1, 0)
              THEN r.status = "bug" /\ r.ret = NoValue
              ELSE /\ r.status = "ok"
                   /\ r.ret = WideValue("by_val", "func", NamedId("fn"), o, Wide(0, 0))

C10_FunctionAddend == [](ScanState /\ UseSiteFunctionPointer) /\ [][ScanStep]_vars

\* finalize has ended in the internal error on an allocation that holds a
\* function pointer with a non-zero addend
C10_Witness ==
    /\ status = "bug" /\ pc = "finalize"
    /\ \E a \in DOMAIN constants_cx.anon_allocs :
         /\ HasFunctionAddend(alloc_map[a.n])
         /\ module.calls[constants_cx.anon_allocs[a]] = 0
         /\ Alloc(a) \notin Range(constants_cx.todo)

(***************************************************************************)
(* C11: a reference to a static never enqueues it.  Resolving a relocation *)
(* or a use-site pointer at a non-thread-local static declares the static  *)
(* as a reference (Import or Preemptible) and leaves todo without a new    *)
(* TodoItem::Static: the only Static item a ConstantCx ever holds is the   *)
(* one codegen_static pushed, and the symbol of a static that was never    *)
(* requested through codegen_static is never defined.                      *)
(***************************************************************************)
\* the Static items of a todo queue
StaticsIn(todo) == {item \in Range(todo) : item.tag = "Static"}

ReferenceLinkages == {"Import", "Preemptible"}

\* module n differs from m on the symbol of s at most by a declaration as a
\* reference
OnlyReferenced(m, n, s) ==
    LET h == NamedId(symbol_name(s))
    IN IF h \in Declared(m)
       THEN n.decls[h] = m.decls[h] /\ n.defs[h] = m.defs[h] /\ n.calls[h] = m.calls[h]
       ELSE /\ h \in Declared(n)
            /\ n.decls[h].linkage \in ReferenceLinkages
            /\ ~n.defs[h].defined /\ n.calls[h] = 0

\* a use-site pointer at static s, lowered in this state
UseSiteReference(s) ==
    \A o \in Offsets :
        \A r \in {codegen_const_value(constants_cx, module, alloc_map,
                                      ScalarPtrConst(StaticId(s), o), "clif")} :
            /\ r.cx = constants_cx
            /\ OnlyReferenced(module, r.m, s)

C11_State ==
    /\ \A s \in {t \in DefIds : ~thread_local(t)} : UseSiteReference(s)
    /\ constants_cx.pushed \cap {Static(s) : s \in DefIds} = {}
    /\ \A item \in static_cx.pushed :
         item.tag = "Static" => hist.requested[item.id.d] >= 1
    /\ Cardinality({item \in static_cx.pushed : item.tag = "Static"}) <= 1
    /\ \A s \in DefIds :
         (hist.requested[s] = 0 /\ NamedId(symbol_name(s)) \in Declared(module)) =>
            /\ ~module.defs[NamedId(symbol_name(s))].defined
            /\ module.calls[NamedId(symbol_name(s))] = 0
            /\ module.decls[NamedId(symbol_name(s))].linkage \in ReferenceLinkages

C11_Step ==
    \* a reference through codegen_static_ref touches no ConstantCx
    /\ (pc = "idle" /\ pc' = "idle")
          => constants_cx' = constants_cx /\ static_cx'.todo = static_cx.todo
    \* an iteration of the drain adds no Static item to todo
    /\ (pc = "static" /\ pc' = "static")
          => StaticsIn(static_cx'.todo) \subseteq StaticsIn(static_cx.todo)

C11_ReferenceNeverEnqueues == []C11_State /\ [][C11_Step]_vars

\* static A has been requested and defined with a relocation at static B,
\* which was only declared
C11_Witness ==
    /\ pc = "idle" /\ status = "ok"
    /\ hist.requested["A"] = 1 /\ hist.requested["B"] = 0
    /\ module.defs[NamedId("A")].defined
    /\ \E i \in 1..Len(module.defs[NamedId("A")].relocs) :
         module.defs[NamedId("A")].relocs[i].id = NamedId("B")
    /\ NamedId("B") \in Declared(module) /\ ~module.defs[NamedId("B")].defined

(***************************************************************************)
(* C12 as stated: a slice constant {data, start, end} is lowered to the    *)
(* pair (handle of the backing allocation + start, end - start) for every  *)
(* start <= end, and ends the process without a value when end < start.    *)
(***************************************************************************)
SliceLayouts == {"clif", "noclif"}

\* start <= end
WideLeq(start, end) == ~WideNegative(WideSub(end, start))

\* the bounds (start, end) of the slices: the small ones, and (0, 2^63 - 1),
\* (3, 2^63), (0, 2^63) and (2^63, 2^63)
SliceBounds ==
    {<<Wide(0, st), Wide(0, en)>> : st \in SliceStarts, en \in SliceEnds}
    \cup {<<Wide(0, 0), Wide(1, -1)>>, <<Wide(0, 3), Wide(1, 0)>>,
          <<Wide(0, 0), Wide(1, 0)>>, <<Wide(1, 0), Wide(1, 0)>>}

\* every slice over allocation b with bounds for which InRange holds is
\* lowered to the pair, every other one ends the process without a value
SlicesLowered(InRange(_, _)) ==
    \A b \in 1..Len(alloc_map), bounds \in SliceBounds, layout \in SliceLayouts :
        \A r \in {codegen_const_value(constants_cx, module, alloc_map,
                                      WideSlice(b, bounds[1], bounds[2]), layout)} :
            IF InRange(bounds[1], bounds[2])
            THEN /\ r.status = "ok"
                 /\ r.ret = WideValue("by_val_pair", "data", r.cx.anon_allocs[MemId(b)],
                                      bounds[1], WideSub(bounds[2], bounds[1]))
            ELSE /\ r.status = "bug"
                 /\ r.ret = NoValue

C12_Original == SlicesLowered(WideLeq)

(***************************************************************************)
(* C12: a slice constant {data, start, end} is lowered to the pair         *)
(* (handle of the backing allocation + start, end - start) whenever        *)
(* start <= end, start < 2^63 and end - start < 2^63.  It ends the process *)
(* without a value when end < start, and also when start or end - start is *)
(* 2^63 or more: no length is ever produced from an underflowing           *)
(* subtraction or from a value that does not fit a signed 64-bit integer.  *)
(***************************************************************************)
\* start <= end, and start and end - start are below 2^63
SliceInRange(start, end) ==
    /\ WideLeq(start, end)
    /\ start.hi = 0 \/ (start.hi = 1 /\ start.lo < 0)
    /\ WideSub(end, start).hi = 0 \/ (WideSub(end, start).hi = 1 /\ WideSub(end, start).lo < 0)

C12_State ==
    /\ SlicesLowered(SliceInRange)
    /\ ret.kind = "by_val_pair" =>
         /\ status = "ok"
         /\ ret.len >= 0 /\ ret.len_hi = 0 /\ ret.offset_hi = 0
         /\ ret.offset \in SliceStarts /\ ret.offset + ret.len \in SliceEnds
         /\ ret.id \in Range(constants_cx.anon_allocs)

C12_Step ==
    \* the process ends in a use site only without a value
    (pc = "idle" /\ status' # "ok") => ret' = NoValue

C12_SliceLength == []C12_State /\ [][C12_Step]_vars

\* the slice with start 3 and end 7 has been lowered: length 4 at handle + 3
C12_Witness ==
    /\ status = "ok"
    /\ ret.kind = "by_val_pair"
    /\ ret.offset = 3 /\ ret.len = 4
    /\ ret.id = constants_cx.anon_allocs[MemId(1)]

(***************************************************************************)
(* C13: a scalar of a type without a native form is lowered by reference   *)
(* to offset 0 of a new buffer of layout.size bytes that holds the scalar  *)
(* at offset 0.  Each such lowering makes a buffer and a data object of    *)
(* its own, also for the same scalar twice; each buffer is enqueued, and   *)
(* defined by one define_data call once finalize has returned.             *)
(***************************************************************************)
\* the memory identities that use sites have materialized
FreshIds(c) == {a \in DOMAIN c.anon_allocs : a.n > NMem}

\* r is the result of lowering scalar cv from (c, m, am) as bytes
FreshlyMaterialized(r, c, m, am, cv) ==
    LET a == MemId(Len(am) + 1)
    IN /\ r.status = "ok"
       /\ Len(r.am) = Len(am) + 1
       /\ SubSeq(r.am, 1, Len(am)) = am
       /\ r.am[Len(r.am)].len = LayoutSize("noclif")
       /\ r.am[Len(r.am)].written = [offset |-> 0, size |-> LayoutSize("noclif"), scalar |-> cv]
       /\ a \notin DOMAIN c.anon_allocs
       /\ a \in DOMAIN r.cx.anon_allocs
       /\ r.cx.anon_allocs[a] \notin Declared(m)
       /\ r.cx.anon_allocs[a] \in Declared(r.m)
       /\ r.cx.todo = Append(c.todo, Alloc(a))
       /\ r.ret = Value("by_ref", "data", r.cx.anon_allocs[a], 0, 0)

C13_State ==
    /\ \A cv \in ScalarFallbacks :
         \A r1 \in {codegen_const_value(constants_cx, module, alloc_map, cv, "noclif")} :
         \A r2 \in {codegen_const_value(r1.cx, r1.m, r1.am, cv, "noclif")} :
            /\ FreshlyMaterialized(r1, constants_cx, module, alloc_map, cv)
            /\ FreshlyMaterialized(r2, r1.cx, r1.m, r1.am, cv)
            /\ r2.ret.id # r1.ret.id
    /\ \A a \in FreshIds(constants_cx) : Alloc(a) \in constants_cx.pushed
    /\ \A a, b \in FreshIds(constants_cx) :
         a # b => constants_cx.anon_allocs[a] # constants_cx.anon_allocs[b]
    /\ FinalizeReturned =>
         \A a \in FreshIds(constants_cx) : DefinedOnce(constants_cx.anon_allocs[a])

C13_Step ==
    \* a use site that materializes a buffer returns it by reference
    (pc = "idle" /\ Len(alloc_map') > Len(alloc_map)) =>
        /\ Len(alloc_map') = Len(alloc_map) + 1
        /\ ret' = Value("by_ref", "data", constants_cx'.anon_allocs[MemId(Len(alloc_map'))], 0, 0)
        /\ ret'.id \notin Declared(module)

C13_ScalarFallbackFresh == []C13_State /\ [][C13_Step]_vars

\* finalize has returned after two use sites lowered the same scalar as
\* bytes: two buffers, two data objects, each defined once
C13_Witness ==
    /\ FinalizeReturned
    /\ Len(alloc_map) = NMem + 2
    /\ alloc_map[NMem + 1] = alloc_map[NMem + 2]
    /\ {MemId(NMem + 1), MemId(NMem + 2)} \subseteq DOMAIN constants_cx.anon_allocs
    /\ constants_cx.anon_allocs[MemId(NMem + 1)] # constants_cx.anon_allocs[MemId(NMem + 2)]
    /\ DefinedOnce(constants_cx.anon_allocs[MemId(NMem + 1)])
    /\ DefinedOnce(constants_cx.anon_allocs[MemId(NMem + 2)])

(***************************************************************************)
(* C14: the declaration data_id_for_static makes for a static's symbol.    *)
(* Linkage: the one derived from the static's visibility at a definition   *)
(* site; Import at a reference site, Preemptible when the linkage hint is  *)
(* weak or extern_weak.  The thread-local flag is the static's, and the    *)
(* object is writable iff the static is mutable or its type is not Freeze. *)
(***************************************************************************)
WeakHints == {"WeakAny", "ExternalWeak"}

ExpectedDecl(s, definition) ==
    [linkage |-> IF definition THEN get_static_linkage(s)
                 ELSE IF rlinkage(s) \in WeakHints THEN "Preemptible" ELSE "Import",
     writable |-> is_mutable_static(s) \/ ~is_freeze(s),
     tls |-> thread_local(s)]

C14_State ==
    \* the declaration any call would make in this state
    /\ \A s \in DefIds \cup HintDefIds, definition \in BOOLEAN :
         NamedId(symbol_name(s)) \notin Declared(module) =>
            \A r \in {data_id_for_static(module, s, definition)} :
               /\ NamedId(symbol_name(s)) \in Declared(r.m)
               /\ r.m.decls[NamedId(symbol_name(s))] = ExpectedDecl(s, definition)
    \* the declarations made so far
    /\ \A s \in DefIds :
         NamedId(symbol_name(s)) \in Declared(module) =>
            /\ module.decls[NamedId(symbol_name(s))]
                 \in {ExpectedDecl(s, TRUE), ExpectedDecl(s, FALSE)}
            /\ hist.requested[s] = 0 =>
                 module.decls[NamedId(symbol_name(s))] = ExpectedDecl(s, FALSE)

C14_Step ==
    \* a static first declared by codegen_static gets the definition linkage
    \A s \in DefIds :
        (/\ NamedId(symbol_name(s)) \notin Declared(module)
         /\ NamedId(symbol_name(s)) \in Declared(module')
         /\ pc = "static" /\ static_cx.todo # <<>>
         /\ static_cx.todo[Len(static_cx.todo)] = Static(s))
        => module'.decls[NamedId(symbol_name(s))] = ExpectedDecl(s, TRUE)

C14_StaticLinkage == []C14_State /\ [][C14_Step]_vars

\* the weak static W is declared by a reference, the mutable static B by
\* its definition and the thread-local static T by a reference
C14_Witness ==
    /\ {NamedId("W"), NamedId("B"), NamedId("T")} \subseteq Declared(module)
    /\ module.decls[NamedId("W")].linkage = "Preemptible"
    /\ module.decls[NamedId("B")].linkage = get_static_linkage("B")
    /\ module.decls[NamedId("B")].writable
    /\ module.defs[NamedId("B")].defined
    /\ module.decls[NamedId("T")].tls

(***************************************************************************)
(* C15: check_constants returns true iff every required constant resolves. *)
(* For each required constant whose evaluation fails with Reported or      *)
(* Linted it emits "erroneous constant encountered", goes on with the      *)
(* remaining constants and returns false.  A TooGeneric failure is a fatal *)
(* internal error, never a diagnostic.  Once check_constants has returned  *)
(* true, codegen_constant never meets an erroneous required constant.      *)
(***************************************************************************)
Resolves(constant) ==
    constant.kind \in {"Val", "Value"} \/ (constant.kind = "Unevaluated" /\ constant.eval = "Ok")

\* the positions of the required constants that fail with one of errs
FailingAt(required, errs) ==
    {i \in DOMAIN required : required[i].kind = "Unevaluated" /\ required[i].eval \in errs}

C15_CheckConstants ==
    fx.checked =>
       LET required == fx.required_consts
           diagnostics == fx.diagnostics
       IN \* no TooGeneric failure is turned into a diagnostic; one among the
          \* required constants ends the process
          /\ \A k \in DOMAIN diagnostics : diagnostics[k] \notin FailingAt(required, {"TooGeneric"})
          /\ FailingAt(required, {"TooGeneric"}) # {} => status = "bug"
          \* the body never meets an erroneous constant
          /\ (\A i \in DOMAIN required : Resolves(required[i])) => status = "ok"
          \* the diagnostics are emitted in the order of the constants
          /\ \A k \in DOMAIN diagnostics : k > 1 => diagnostics[k - 1] < diagnostics[k]
          /\ status = "ok" =>
               \* check_constants has returned
               /\ fx.all_constants_ok <=> \A i \in DOMAIN required : Resolves(required[i])
               /\ {diagnostics[k] : k \in DOMAIN diagnostics}
                    = FailingAt(required, {"Reported", "Linted"})
               /\ ~fx.all_constants_ok <=> FailingAt(required, {"Reported", "Linted"}) # {}

\* check_constants has returned false after two diagnostics, with a
\* constant that resolves between the two failing ones
C15_Witness ==
    /\ fx.checked /\ status = "ok"
    /\ Len(fx.required_consts) = 3
    /\ fx.required_consts[1].eval = "Reported"
    /\ Resolves(fx.required_consts[2])
    /\ fx.required_consts[3].eval = "Linted"
    /\ fx.diagnostics = <<1, 3>>
    /\ ~fx.all_constants_ok

(***************************************************************************)
(* C16 as stated: every item of a todo queue, allocation or static, has    *)
(* its data object declared in the module while it waits to be popped.     *)
(***************************************************************************)
ItemDeclared(c, item) ==
    IF item.tag = "Alloc"
    THEN item.id \in DOMAIN c.anon_allocs /\ c.anon_allocs[item.id] \in Declared(module)
    ELSE NamedId(symbol_name(item.id.d)) \in Declared(module)

C16_Original ==
    \A c \in {constants_cx, static_cx} :
        \A i \in DOMAIN c.todo : ItemDeclared(c, c.todo[i])

(***************************************************************************)
(* C16: declaration precedes definition.  Every allocation item of a todo  *)
(* queue has its data object declared (a handle in the dedup table and in  *)
(* the module) from the moment it is pushed.  A static item is pushed by   *)
(* codegen_static without a declaration; its symbol is declared at the     *)
(* latest by the pop that defines it, and every data relocation a pop      *)
(* writes targets a handle that is declared.                               *)
(***************************************************************************)
C16_State ==
    \A c \in {constants_cx, static_cx} :
        \A i \in DOMAIN c.todo : c.todo[i].tag = "Alloc" => ItemDeclared(c, c.todo[i])

\* the handles defined by the step
NewlyDefined ==
    {h \in Declared(module') :
        module'.defs[h].defined /\ (h \in Declared(module) => ~module.defs[h].defined)}

C16_Step ==
    /\ (/\ pc = "static" /\ static_cx.todo # <<>> /\ status' = "ok"
        /\ static_cx.todo[Len(static_cx.todo)].tag = "Static")
       => NamedId(symbol_name(static_cx.todo[Len(static_cx.todo)].id.d)) \in Declared(module')
    /\ \A h \in NewlyDefined :
          \A k \in DOMAIN module'.defs[h].relocs :
             module'.defs[h].relocs[k].kind = "data" =>
                module'.defs[h].relocs[k].id \in Declared(module')

C16_DeclaredBeforeDefined == []C16_State /\ [][C16_Step]_vars

\* static A, requested with no earlier reference, has been declared and
\* defined by its pop; the allocation its initializer points at waits in
\* the queue, declared and not yet defined
C16_Witness ==
    /\ pc = "static"
    /\ hist.requested["A"] = 1
    /\ NamedId("A") \in Declared(module)
    /\ module.defs[NamedId("A")].defined
    /\ static_cx.todo = <<Alloc(MemId(1))>>
    /\ ItemDeclared(static_cx, Alloc(MemId(1)))
    /\ ~module.defs[static_cx.anon_allocs[MemId(1)]].defined

(***************************************************************************)
(* C17: forward references resolve.  Every data relocation written into an *)
(* object being defined targets a declared handle; an anonymous target     *)
(* that is not defined yet is pending in the todo queue of the drain; and  *)
(* when the drain has finished, every anonymous target of every relocation *)
(* written by it is defined.                                               *)
(***************************************************************************)
\* the handles the data relocations of a defined object h point at
DataTargets(m, h) ==
    {m.defs[h].relocs[k].id : k \in {j \in DOMAIN m.defs[h].relocs : m.defs[h].relocs[j].kind = "data"}}

\* the handles of the allocation items waiting in c.todo
PendingHandles(c) ==
    {c.anon_allocs[c.todo[i].id] :
        i \in {j \in DOMAIN c.todo : c.todo[j].tag = "Alloc" /\ c.todo[j].id \in DOMAIN c.anon_allocs}}

\* the objects the drain of c has defined: the ones in its dedup table and
\* the statics it was asked for
DefinedBy(c) ==
    {h \in Range(c.anon_allocs) \cup {NamedId(symbol_name(item.id.d)) : item \in StaticItems(c)} :
        h \in Declared(module) /\ module.defs[h].defined}

\* every anonymous target of the objects defined by the drain of c is defined
ClosedUnderRelocs(c) ==
    \A h \in DefinedBy(c) :
        \A t \in DataTargets(module, h) :
            /\ t \in Declared(module)
            /\ t.name = "" => module.defs[t].defined

C17_State ==
    /\ FinalizeReturned => ClosedUnderRelocs(constants_cx)
    /\ (pc # "static" /\ status = "ok") => ClosedUnderRelocs(static_cx)

C17_Step ==
    \A h \in NewlyDefined :
        \A t \in DataTargets(module', h) :
            /\ t \in Declared(module')
            /\ (t.name = "" /\ ~module'.defs[t].defined) =>
                  t \in (IF pc = "static" THEN PendingHandles(static_cx')
                         ELSE PendingHandles(constants_cx'))

C17_ForwardReferences == []C17_State /\ [][C17_Step]_vars

\* the codegen unit is finalized: two allocations that point at each other
\* are both defined, each with its relocation to the other
C17_Witness ==
    /\ FinalizeReturned /\ status = "ok"
    /\ \E g, h \in DefinedBy(constants_cx) :
          /\ g # h
          /\ h \in DataTargets(module, g)
          /\ g \in DataTargets(module, h)

(***************************************************************************)
(* C18 as stated: every relocation at offset o whose target is an          *)
(* allocation or a static is written as a data relocation at the same      *)
(* offset o, with an addend equal to the integer stored at o, whatever the *)
(* offset and the stored integer.                                          *)
(***************************************************************************)
\* the buffer a defined object was copied from
SourceOf(ctx) ==
    IF ctx.init.k = "Memory" THEN alloc_map[ctx.init.n] ELSE eval_static_initializer(ctx.init.d)

\* the k-th relocation written into h is a data relocation where P holds of
\* it and of the k-th relocation of the buffer, for every relocation of the
\* buffer to an allocation or a static
DataRelocsSatisfy(P(_, _)) ==
    \A h \in {g \in NewlyDefined : module'.defs[g].init.k \in {"Memory", "Static"}} :
        LET ctx == module'.defs[h]
            relocs == SourceOf(ctx).relocs
        IN /\ Len(ctx.relocs) = Len(relocs)
           /\ \A k \in DOMAIN relocs :
                 relocs[k].target.k \in {"Memory", "Static"} =>
                    ctx.relocs[k].kind = "data" /\ P(ctx.relocs[k], relocs[k])

\* the offset and the addend written are the integers of the buffer
ExactlyAsStored(written, r) ==
    /\ r.offset_hi = 0 /\ written.offset = r.offset
    /\ written.addend_hi = r.raw_hi /\ written.addend = r.raw

C18_Original == [][DataRelocsSatisfy(ExactlyAsStored)]_vars

(***************************************************************************)
(* C18: every relocation at offset o whose target is an allocation or a    *)
(* static is written as a data relocation at offset o mod 2^32 whose       *)
(* addend is the stored integer read as a 64-bit two's complement number:  *)
(* the offset o itself when o < 2^32, the stored integer itself when it is *)
(* below 2^63, the stored integer minus 2^64 otherwise.                    *)
(***************************************************************************)
AsTruncated(written, r) ==
    /\ written.offset = r.offset
    /\ written.addend = r.raw
    /\ written.addend_hi = IF FitsI64(Wide(r.raw_hi, r.raw)) THEN r.raw_hi ELSE r.raw_hi - 2
    /\ FitsI64(Wide(written.addend_hi, written.addend))

C18_AddendAsStored == [][DataRelocsSatisfy(AsTruncated)]_vars

\* an allocation with a relocation at offset 2^32 + 8 that stores 2^64 - 4
\* is defined with a relocation at offset 8 and addend -4
C18_Witness ==
    \E h \in Declared(module) :
        /\ module.defs[h].defined
        /\ module.defs[h].init.k = "Memory"
        /\ SourceOf(module.defs[h]).relocs = <<WideReloc(1, PtrSize, StaticId("A"), 2, -4)>>
        /\ Len(module.defs[h].relocs) = 1
        /\ module.defs[h].relocs[1].offset = PtrSize
        /\ module.defs[h].relocs[1].addend_hi = 0
        /\ module.defs[h].relocs[1].addend = -4

(***************************************************************************)
(* C19: for a static with a linkage hint, every call of                    *)
(* data_id_for_static returns the handle of the indirection object: local  *)
(* linkage, the derived name, not writable, not thread-local, defined as a *)
(* zeroed pointer-sized buffer with one relocation, at offset 0, to the    *)
(* static's symbol with addend 0.  For a static with no linkage hint the   *)
(* handle of the symbol is returned and no object is defined.              *)
(***************************************************************************)
DefinedIn(m) == {h \in Declared(m) : m.defs[h].defined}

IndirectionDecl == [linkage |-> "Local", writable |-> FALSE, tls |-> FALSE]

C19_State ==
    \A s \in DefIds \cup HintDefIds, definition \in BOOLEAN :
        \A r \in {data_id_for_static(module, s, definition)} :
            IF rlinkage(s) # "None"
            THEN /\ r.status = "ok"
                 /\ r.id = NamedId("_rust_extern_with_linkage_" \o symbol_name(s))
                 /\ r.id # NamedId(symbol_name(s))
                 /\ r.m.decls[r.id] = IndirectionDecl
                 /\ r.m.defs[r.id].defined
                 /\ r.m.defs[r.id].init = Zeroes(PtrSize)
                 /\ r.m.defs[r.id].relocs
                      = <<[offset |-> 0, kind |-> "data", id |-> NamedId(symbol_name(s)),
                           addend |-> 0, addend_hi |-> 0]>>
                 /\ NamedId(symbol_name(s)) \in Declared(r.m)
                 /\ DefinedIn(r.m) = DefinedIn(module) \cup {r.id}
            ELSE /\ r.status = "ok"
                 /\ r.id = NamedId(symbol_name(s))
                 /\ DefinedIn(r.m) = DefinedIn(module)
                 /\ \A h \in Declared(module) : r.m.calls[h] = module.calls[h]

C19_Step ==
    \* a reference site gets the handle the call returned
    (pc = "idle" /\ pc' = "idle" /\ status' = "ok") =>
        \A s \in DefIds :
            /\ ret'.id = NamedId(symbol_name(s)) =>
                  rlinkage(s) = "None" /\ DefinedIn(module') = DefinedIn(module)
            /\ ret'.id = RefId(s) =>
                  rlinkage(s) # "None" /\ module'.defs[RefId(s)] = IndirectionOf(s)

C19_Indirection == []C19_State /\ [][C19_Step]_vars

\* the weak static W and the plain static A have been referenced and no
\* static has been requested: the indirection object of W is the only
\* object defined
C19_Witness ==
    /\ \A s \in DefIds : hist.requested[s] = 0
    /\ ret.id = RefId("W")
    /\ {NamedId("A"), NamedId("W"), RefId("W")} \subseteq Declared(module)
    /\ DefinedIn(module) = {RefId("W")}
    /\ module.defs[RefId("W")] = IndirectionOf("W")

(***************************************************************************)
(* C20: whatever the references made, codegen_static requests on pairwise  *)
(* distinct statics, with a linkage hint or not, never make the final      *)
(* define_data of define_all_allocs fail with a duplicate definition, and  *)
(* the initializer of each requested static, bytes and relocations, is     *)
(* written into the data object named by the static's symbol.              *)
(***************************************************************************)
\* the statics codegen_static has been requested for, each at most once
Requested(among) == {s \in among : hist.requested[s] >= 1}
PairwiseDistinct == \A s \in DefIds : hist.requested[s] <= 1

\* the object of the symbol of s holds the initializer of s
HoldsInitializer(s) ==
    /\ NamedId(symbol_name(s)) \in Declared(module)
    /\ module.defs[NamedId(symbol_name(s))].defined
    /\ module.defs[NamedId(symbol_name(s))].init = StaticId(s)
    /\ Len(module.defs[NamedId(symbol_name(s))].relocs) = Len(eval_static_initializer(s).relocs)

DefinesRequested(among) ==
    (PairwiseDistinct /\ Requested(DefIds) \subseteq among /\ pc = "idle" /\ status = "ok") =>
        \A s \in Requested(among) : HoldsInitializer(s)

\* no step of the drain of codegen_static ends in the panic of
\* define_data(..).unwrap()
NoDuplicateDefinition(among) ==
    (PairwiseDistinct /\ Requested(DefIds) \subseteq among /\ pc = "static") => status' # "bug"

C20_NoDuplicateDefinition ==
    []DefinesRequested(DefIds) /\ [][NoDuplicateDefinition(DefIds)]_vars

\* the same, when no requested static carries a linkage hint
C20_WithoutHint ==
    []DefinesRequested(DefIds \ HintedStatics)
    /\ [][NoDuplicateDefinition(DefIds \ HintedStatics)]_vars

====
